---------------------------- MODULE Spec2Model ----------------------------
(***************************************************************************)
(* Model of the indicator engines of candleChartv1:                        *)
(*   - FRVPCalculator (src/unnamed/part_003, lines 368-734): price rows,   *)
(*     volume distribution, Point of Control, Value Area;                  *)
(*   - the CVD engine (src/unnamed/part_003, lines 65-291).                *)
(*   - the smoothing functions, RSI and its divergences, and MACD          *)
(*     (src/unnamed/part_004, part_009, src/candleChart/indicators).       *)
(*                                                                         *)
(* JavaScript numbers are modelled as exact rationals <<n, d>> (d > 0, in  *)
(* lowest terms), so every statement below is about the arithmetic the     *)
(* code writes down, without IEEE-754 rounding.  NaN, which the code can   *)
(* produce as 0/0, is modelled by the value NaN.                           *)
(***************************************************************************)
EXTENDS Integers, Sequences, FiniteSets, TLC

VARIABLES
    \* ---- FRVPCalculator.calculateProfile / calculateValueArea
    minuteBars,         \* the bars given to calculateProfile
    settings,           \* { rowsLayout, rowSize, valueAreaVolume }
    rows,               \* the price level rows, indexed 0..N-1
    barIdx,             \* bars.forEach position inside distributeVolume
    poc,                \* the row calculatePOC returned
    vaPercentage,       \* third argument of calculateValueArea
    targetVolume,
    accumulatedVolume,
    valueAreaRows,      \* the Set, as the sequence of its insertion order
    aboveIndex,
    belowIndex,
    chosenSide,         \* chosenSide of the last loop iteration
    vah,
    val,
    pc,                 \* position inside calculateProfile
    \* ---- calculateCVD
    candles,            \* target timeframe candles (their times)
    oneMinCandles,      \* all 1-minute candles, sorted by time
    options,            \* { anchorPeriod, chartTimeframe }
    cvdI,               \* loop variable i of calculateCVD
    cumulativeCVD,
    currentAnchorStart,
    cvdData,            \* the CVD candles pushed so far
    deltas,             \* local "deltas" of the last calculateCVDForCandle call
    \* ---- the oscillators and the smoothing functions
    data,               \* the bars (or points) an indicator function is given
    indSettings,        \* its period(s) and settings
    smoothFn,           \* which smoothing function was called
    smoothed,           \* what it returned
    rsiData,            \* calculateRSI: the returned series
    rsiValues,          \* calculateAdvancedRSI: its locals
    maValues,
    bbUpper,
    bbLower,
    bullDivergences,
    bearDivergences,
    rsiPivotsL,
    rsiPivotsH,
    macdLine,           \* calculateMACD: its locals
    signalLine,
    histogramData,
    indPc,              \* position inside the indicator call
    \* ---- calculateDeveloping
    developingData,
    devI,               \* its loop variable i
    devFlags,           \* developingPOC and developingVA, in this.config
                        \* (instance) and in the config argument (passed)
    depth,              \* the deepest calculateProfile call made so far:
                        \* 0 the caller's, 1 one made by calculateDeveloping
    \* ---- calculateFRVP
    config,             \* the merged configuration given to validateFRVPConfig
    \* ---- a caller that calls an engine twice with the same arguments
    calls,              \* the number of the call in progress
    firstOutput,        \* what the first call returned
    \* ---- the real-time CVD feed (cvd-websocket.js)
    cvdWebSocket,       \* 0 for null, else the number of the socket it refers to
    cvdReconnectTimer,  \* 0 for null, else the id setTimeout returned
    cvdRealtimeData,    \* { oneMinBuffer, currentCVD, lastAnchorReset }
    sockets,            \* the readyState of every WebSocket created so far
    timers,             \* the ids of the timeouts still pending
    delivered,          \* the number of candle messages delivered so far
    cvdSeries,          \* the last point given to cvdInstance.series.update
    stopped,            \* stopCVDWebSocket has returned and the application
                        \* has not called startCVDWebSocket since
    \* ---- the rays and the alerts on them
    horizontalRays,     \* window.drawingStore.horizontalRays: { id, price }
    nextRayId,          \* the number the next ray's id is made from
    alerts,             \* window.alertStore.alerts
    lastValues,         \* window.alertStore.lastValues, by <<alert, condition>>
    condResults         \* what the last evaluateAlerts call made of each
                        \* alert's conditions

frvpVars == <<minuteBars, settings, rows, barIdx, poc, vaPercentage,
              targetVolume, accumulatedVolume, valueAreaRows, aboveIndex,
              belowIndex, chosenSide, vah, val, pc>>
cvdVars == <<candles, oneMinCandles, options, cvdI, cumulativeCVD,
             currentAnchorStart, cvdData, deltas>>
indicatorVars == <<data, indSettings, smoothFn, smoothed, rsiData, rsiValues,
                   maValues, bbUpper, bbLower, bullDivergences, bearDivergences,
                   rsiPivotsL, rsiPivotsH, macdLine, signalLine, histogramData, indPc>>
devVars == <<developingData, devI, devFlags, depth>>
feedVars == <<cvdWebSocket, cvdReconnectTimer, cvdRealtimeData, sockets, timers,
              delivered, cvdSeries, stopped>>
alertVars == <<horizontalRays, nextRayId, alerts, lastValues, condResults>>
uiVars == <<feedVars, alertVars>>
appVars == <<config, calls, firstOutput, uiVars>>
vars == <<frvpVars, cvdVars, indicatorVars, devVars, appVars>>

-----------------------------------------------------------------------------
(* Bounds of the model and the sets inputs are drawn from.                 *)

MaxRows == 4
MaxBars == 2
MaxRowSize == 3
MaxOneMin == 3
MaxCandles == 3
MaxRowVolume == 3

RowVolumes == 0 .. MaxRowVolume
VAPercentages == {0, 30, 50, 70, 100}
BarPrices == {0, 1, 2}
BarVolumes == {0, 1}

-----------------------------------------------------------------------------
(* Exact arithmetic on JavaScript numbers.                                 *)

Abs(x) == IF x < 0 THEN -x ELSE x

RECURSIVE GCD(_, _)
GCD(a, b) == IF b = 0 THEN a ELSE GCD(b, a % b)

Rat(n, d) == LET g == GCD(Abs(n), d) IN <<n \div g, d \div g>>

Num(i) == <<i, 1>>
Zero == <<0, 1>>
NaN == <<0, 0>>
Infinity == <<1, 0>>
IsNaN(x) == x = NaN

\* sums and products are reduced before they are formed, to keep the
\* intermediate integers small
RAdd(x, y) ==
    IF x[2] = 0 \/ y[2] = 0 THEN Rat(x[1] * y[2] + y[1] * x[2], x[2] * y[2])
    ELSE LET g == GCD(x[2], y[2])
         IN  Rat(x[1] * (y[2] \div g) + y[1] * (x[2] \div g), (x[2] \div g) * y[2])
RSub(x, y) == RAdd(x, <<-y[1], y[2]>>)
RMul(x, y) ==
    IF x[2] = 0 \/ y[2] = 0 \/ x[1] = 0 \/ y[1] = 0 THEN Rat(x[1] * y[1], x[2] * y[2])
    ELSE LET g1 == GCD(Abs(x[1]), y[2])
             g2 == GCD(Abs(y[1]), x[2])
         IN  <<(x[1] \div g1) * (y[1] \div g2), (x[2] \div g2) * (y[2] \div g1)>>
RDiv(x, y) == IF y[1] = 0 THEN (IF x[1] = 0 THEN NaN ELSE Infinity)
              ELSE IF y[1] > 0 THEN RMul(x, <<y[2], y[1]>>)
              ELSE RMul(x, <<-y[2], -y[1]>>)
RLt(x, y) ==
    IF x[2] = 0 \/ y[2] = 0 THEN x[1] * y[2] < y[1] * x[2]
    ELSE IF x[2] = y[2] THEN x[1] < y[1]
    ELSE LET g == GCD(x[2], y[2])
         IN  x[1] * (y[2] \div g) < y[1] * (x[2] \div g)
RLe(x, y) ==
    IF x[2] = 0 \/ y[2] = 0 THEN x[1] * y[2] <= y[1] * x[2]
    ELSE IF x[2] = y[2] THEN x[1] <= y[1]
    ELSE LET g == GCD(x[2], y[2])
         IN  x[1] * (y[2] \div g) <= y[1] * (x[2] \div g)
RMax(x, y) == IF RLt(x, y) THEN y ELSE x
RMin(x, y) == IF RLt(y, x) THEN y ELSE x
\* Math.ceil of a rational, as an integer
RCeil(x) == -((-x[1]) \div x[2])

-----------------------------------------------------------------------------
(* FRVPCalculator: pure parts.                                             *)

Layouts == {"Number", "Tick", "Percentage"}

NullRow == [index |-> -1, priceLow |-> Zero, priceHigh |-> Zero,
            priceLevel |-> Zero, upVolume |-> Zero, downVolume |-> Zero,
            totalVolume |-> Zero, delta |-> Zero]

\* Math.max(1, numRows): NaN when numRows is NaN
MaxOne(x) == IF IsNaN(x) THEN NaN ELSE RMax(Num(1), x)

\* Math.ceil(x), NaN for NaN
CeilNum(x) == IF IsNaN(x) THEN NaN ELSE Num(RCeil(x))

\* the switch on rowsLayout, then "Ensure at least 1 row"
numRowsOf(priceRange, st) ==
    LET rowSize == Num(st.rowSize)
        raw == CASE st.rowsLayout = "Number" -> rowSize
                 [] st.rowsLayout = "Tick" -> CeilNum(RDiv(priceRange, rowSize))
                 [] st.rowsLayout = "Percentage" ->
                      LET rowHeight == RDiv(RMul(priceRange, rowSize), Num(100))
                      IN  CeilNum(RDiv(priceRange, rowHeight))
                 [] OTHER -> rowSize
    IN  MaxOne(raw)

\* for (let i = 0; i < numRows; i++): the values i takes (none for NaN)
RowIndices(numRows) == IF IsNaN(numRows) THEN {} ELSE 0 .. (numRows[1] - 1)

createPriceLevelRows(low, high, st) ==
    LET priceRange == RSub(high, low)
        numRows == numRowsOf(priceRange, st)
        actualRowSize == RDiv(priceRange, numRows)
    IN  [i \in RowIndices(numRows) |->
            LET priceLow == RAdd(low, RMul(Num(i), actualRowSize))
                priceHigh == RMin(RAdd(priceLow, actualRowSize), high)
            IN  [index |-> i, priceLow |-> priceLow, priceHigh |-> priceHigh,
                 priceLevel |-> RDiv(RAdd(priceLow, priceHigh), Num(2)),
                 upVolume |-> Zero, downVolume |-> Zero,
                 totalVolume |-> Zero, delta |-> Zero]]

rangesOverlap(low1, high1, low2, high2) == RLe(low1, high2) /\ RLe(low2, high1)

\* (a variant that measures the overlap against the row's height)
calculateOverlapRatioOfRow(low1, high1, low2, high2) ==
    LET overlapLow == RMax(low1, low2)
        overlapHigh == RMin(high1, high2)
        overlapRange == RMax(Zero, RSub(overlapHigh, overlapLow))
        totalRange == RSub(high2, low2)
    IN  IF RLt(Zero, totalRange) THEN RDiv(overlapRange, totalRange) ELSE Zero

calculateOverlapRatio(low1, high1, low2, high2) ==
    LET overlapLow == RMax(low1, low2)
        overlapHigh == RMin(high1, high2)
        overlapRange == RMax(Zero, RSub(overlapHigh, overlapLow))
        totalRange == RSub(high1, low1)
    IN  IF RLt(Zero, totalRange) THEN RDiv(overlapRange, totalRange) ELSE Zero

\* (a variant that adds every bar's volume to upVolume)
distributeBarAsUp(bar, rs) ==
    [i \in DOMAIN rs |->
        LET row == rs[i]
        IN  IF rangesOverlap(Num(bar.low), Num(bar.high), row.priceLow, row.priceHigh)
            THEN LET overlapRatio == calculateOverlapRatio(Num(bar.low), Num(bar.high),
                                                           row.priceLow, row.priceHigh)
                     volumeForRow == RMul(Num(bar.volume), overlapRatio)
                     up == RAdd(row.upVolume, volumeForRow)
                 IN  [row EXCEPT !.upVolume = up,
                                 !.totalVolume = RAdd(row.totalVolume, volumeForRow),
                                 !.delta = RSub(up, row.downVolume)]
            ELSE row]

\* the body of bars.forEach in distributeVolume, for one bar
distributeBar(bar, rs) ==
    LET isUpBar == bar.close >= bar.open
    IN  [i \in DOMAIN rs |->
            LET row == rs[i]
            IN  IF rangesOverlap(Num(bar.low), Num(bar.high), row.priceLow, row.priceHigh)
                THEN LET overlapRatio == calculateOverlapRatio(Num(bar.low), Num(bar.high),
                                                               row.priceLow, row.priceHigh)
                         volumeForRow == RMul(Num(bar.volume), overlapRatio)
                         up == IF isUpBar THEN RAdd(row.upVolume, volumeForRow) ELSE row.upVolume
                         down == IF isUpBar THEN row.downVolume ELSE RAdd(row.downVolume, volumeForRow)
                     IN  [row EXCEPT !.upVolume = up, !.downVolume = down,
                                     !.totalVolume = RAdd(row.totalVolume, volumeForRow),
                                     !.delta = RSub(up, down)]
                ELSE row]

\* rows.reduce((sum, r) => sum + r.totalVolume, 0)
RECURSIVE SumFrom(_, _)
SumFrom(rs, i) == IF i \notin DOMAIN rs THEN Zero
                  ELSE RAdd(rs[i].totalVolume, SumFrom(rs, i + 1))
totalVolumeOf(rs) == SumFrom(rs, 0)

\* currentRow.totalVolume > maxRow.totalVolume
PocTakesGe(currentRow, maxRow) == RLe(maxRow.totalVolume, currentRow.totalVolume)
PocTakes(currentRow, maxRow) == RLt(maxRow.totalVolume, currentRow.totalVolume)

RECURSIVE pocReduce(_, _, _)
pocReduce(rs, maxRow, i) ==
    IF i \notin DOMAIN rs THEN maxRow
    ELSE pocReduce(rs, IF PocTakes(rs[i], maxRow) THEN rs[i] ELSE maxRow, i + 1)

\* calculatePOC on a non-empty row list
calculatePOC(rs) == pocReduce(rs, rs[0], 0)

\* Step 5 and step 8 of the loop: which side is chosen ("above" is index - 1)
ChooseSideBelowOnTie(rs, pocIndex, above, below) ==
    IF ~(below < Cardinality(DOMAIN rs)) THEN "above"
    ELSE IF ~(above >= 0) THEN "below"
    ELSE IF RLt(rs[below].totalVolume, rs[above].totalVolume) THEN "above"
    ELSE IF RLt(rs[above].totalVolume, rs[below].totalVolume) THEN "below"
    ELSE IF pocIndex - above < below - pocIndex THEN "above"
    ELSE "below"
ChooseSide(rs, pocIndex, above, below) ==
    IF ~(below < Cardinality(DOMAIN rs)) THEN "above"
    ELSE IF ~(above >= 0) THEN "below"
    ELSE IF RLt(rs[below].totalVolume, rs[above].totalVolume) THEN "above"
    ELSE IF RLt(rs[above].totalVolume, rs[below].totalVolume) THEN "below"
    ELSE LET aboveDist == pocIndex - above
             belowDist == below - pocIndex
         IN  IF aboveDist < belowDist THEN "above"
             ELSE IF belowDist < aboveDist THEN "below"
             ELSE "above"

\* Step 6: accumulatedVolume + chosenRow.totalVolume > targetVolume
OvershootsNever(acc, chosenRow, target) == FALSE
Overshoots(acc, chosenRow, target) == RLt(target, RAdd(acc, chosenRow.totalVolume))

\* the loop condition of the while statement
LoopCondition(rs, acc, target, above, below) ==
    RLt(acc, target) /\ (above >= 0 \/ below < Cardinality(DOMAIN rs))

\* Step 9: Array.from(valueAreaRows).map(idx => rows[idx]).sort(descending
\* priceLevel); the sort is stable, so among equal price levels the insertion
\* order of the Set is kept.  vah is element 0, val the last element.
BeforeAscending(rs, va, a, b) ==
    \/ RLt(rs[va[a]].priceLevel, rs[va[b]].priceLevel)
    \/ rs[va[a]].priceLevel = rs[va[b]].priceLevel /\ a < b
Before(rs, va, a, b) ==
    \/ RLt(rs[va[b]].priceLevel, rs[va[a]].priceLevel)
    \/ rs[va[a]].priceLevel = rs[va[b]].priceLevel /\ a < b
SortedFirst(rs, va) ==
    rs[va[CHOOSE a \in DOMAIN va : \A b \in DOMAIN va \ {a} : Before(rs, va, a, b)]]
SortedLast(rs, va) ==
    rs[va[CHOOSE a \in DOMAIN va : \A b \in DOMAIN va \ {a} : Before(rs, va, b, a)]]

-----------------------------------------------------------------------------
(* FRVPCalculator.calculateProfile as a state machine.  pc is the position *)
(* in calculateProfile: "start", "distribute" (inside distributeVolume),   *)
(* "poc" (a caller holding rows of its own, about to call calculatePOC),   *)
(* "va" (calculateValueArea entered), "loop" (at the while test), "sort"   *)
(* (step 9), "done" (returned), "error" (an Error was thrown).             *)

\* Math.max(...minuteBars.map(b => b.high)), Math.min(...map(b => b.low))
profileHighOf(bars) ==
    CHOOSE h \in {bars[k].high : k \in DOMAIN bars} : \A k \in DOMAIN bars : bars[k].high <= h
profileLowOf(bars) ==
    CHOOSE l \in {bars[k].low : k \in DOMAIN bars} : \A k \in DOMAIN bars : l <= bars[k].low

\* settings.valueAreaVolume || 70
vaArgument(st) == IF st.valueAreaVolume = 0 THEN 70 ELSE st.valueAreaVolume

\* if (!minuteBars || minuteBars.length === 0) throw
ProfileEmpty ==
    /\ pc = "start"
    /\ Len(minuteBars) = 0
    /\ pc' = "error"
    /\ UNCHANGED <<minuteBars, settings, rows, barIdx, poc, vaPercentage,
                   targetVolume, accumulatedVolume, valueAreaRows, aboveIndex,
                   belowIndex, chosenSide, vah, val>>
    /\ UNCHANGED <<cvdVars, indicatorVars, devVars, appVars>>

\* (a variant that writes the number of rows made back into the settings)
ProfileRowsStoring ==
    /\ pc = "start"
    /\ Len(minuteBars) > 0
    /\ rows' = createPriceLevelRows(Num(profileLowOf(minuteBars)),
                                    Num(profileHighOf(minuteBars)), settings)
    /\ settings' = [settings EXCEPT !.rowSize = Cardinality(DOMAIN rows')]
    /\ barIdx' = 1
    /\ pc' = "distribute"
    /\ UNCHANGED <<minuteBars, poc, vaPercentage,
                   targetVolume, accumulatedVolume, valueAreaRows, aboveIndex,
                   belowIndex, chosenSide, vah, val>>
    /\ UNCHANGED <<cvdVars, indicatorVars, devVars, appVars>>

\* Steps 1 and 2 of calculateProfile
ProfileRows ==
    /\ pc = "start"
    /\ Len(minuteBars) > 0
    /\ rows' = createPriceLevelRows(Num(profileLowOf(minuteBars)),
                                    Num(profileHighOf(minuteBars)), settings)
    /\ barIdx' = 1
    /\ pc' = "distribute"
    /\ UNCHANGED <<minuteBars, settings, poc, vaPercentage,
                   targetVolume, accumulatedVolume, valueAreaRows, aboveIndex,
                   belowIndex, chosenSide, vah, val>>
    /\ UNCHANGED <<cvdVars, indicatorVars, devVars, appVars>>

\* Step 3: one iteration of bars.forEach in distributeVolume
ProfileDistribute ==
    /\ pc = "distribute"
    /\ barIdx <= Len(minuteBars)
    /\ rows' = distributeBar(minuteBars[barIdx], rows)
    /\ barIdx' = barIdx + 1
    /\ UNCHANGED <<minuteBars, settings, poc, vaPercentage,
                   targetVolume, accumulatedVolume, valueAreaRows, aboveIndex,
                   belowIndex, chosenSide, vah, val, pc>>
    /\ UNCHANGED <<cvdVars, indicatorVars, devVars, appVars>>

\* Step 4, first half: calculatePOC(rows) inside calculateProfile
ProfilePOC ==
    /\ pc = "distribute"
    /\ barIdx > Len(minuteBars)
    /\ IF DOMAIN rows = {}
       THEN pc' = "error" /\ UNCHANGED <<poc, vaPercentage>>
       ELSE /\ poc' = calculatePOC(rows)
            /\ vaPercentage' = vaArgument(settings)
            /\ pc' = "va"
    /\ UNCHANGED <<minuteBars, settings, rows, barIdx,
                   targetVolume, accumulatedVolume, valueAreaRows, aboveIndex,
                   belowIndex, chosenSide, vah, val>>
    /\ UNCHANGED <<cvdVars, indicatorVars, devVars, appVars>>

\* calculatePOC(rows) called on rows the caller holds
CallerPOC ==
    /\ pc = "poc"
    /\ DOMAIN rows # {}
    /\ poc' = calculatePOC(rows)
    /\ pc' = "va"
    /\ UNCHANGED <<minuteBars, settings, rows, barIdx, vaPercentage,
                   targetVolume, accumulatedVolume, valueAreaRows, aboveIndex,
                   belowIndex, chosenSide, vah, val>>
    /\ UNCHANGED <<cvdVars, indicatorVars, devVars, appVars>>

\* calculateValueArea, steps 1-3: up to the first test of the while loop.
\* poc is a row of rows, so rows.indexOf(poc) is poc.index.
VAStart ==
    /\ pc = "va"
    /\ LET totalVolume == totalVolumeOf(rows)
       IN  IF totalVolume = Zero
           THEN /\ vah' = poc
                /\ val' = poc
                /\ valueAreaRows' = <<poc.index>>
                /\ pc' = "done"
                /\ UNCHANGED <<targetVolume, accumulatedVolume, aboveIndex, belowIndex>>
           ELSE /\ targetVolume' = RMul(totalVolume, RDiv(Num(vaPercentage), Num(100)))
                /\ accumulatedVolume' = poc.totalVolume
                /\ valueAreaRows' = <<poc.index>>
                /\ aboveIndex' = poc.index - 1
                /\ belowIndex' = poc.index + 1
                /\ pc' = "loop"
                /\ UNCHANGED <<vah, val>>
    /\ UNCHANGED <<minuteBars, settings, rows, barIdx, poc, vaPercentage, chosenSide>>
    /\ UNCHANGED <<cvdVars, indicatorVars, devVars, appVars>>

chosenIndex(side, above, below) == IF side = "above" THEN above ELSE below

\* (the same iteration with the upper cursor moved past a row)
VAExpandSkipping ==
    /\ pc = "loop"
    /\ LoopCondition(rows, accumulatedVolume, targetVolume, aboveIndex, belowIndex)
    /\ LET side == ChooseSide(rows, poc.index, aboveIndex, belowIndex)
           chosenRow == rows[chosenIndex(side, aboveIndex, belowIndex)]
       IN  /\ ~Overshoots(accumulatedVolume, chosenRow, targetVolume)
           /\ chosenSide' = side
           /\ valueAreaRows' = IF \E k \in DOMAIN valueAreaRows : valueAreaRows[k] = chosenRow.index
                               THEN valueAreaRows
                               ELSE Append(valueAreaRows, chosenRow.index)
           /\ accumulatedVolume' = RAdd(accumulatedVolume, chosenRow.totalVolume)
           /\ aboveIndex' = IF side = "above" THEN aboveIndex - 2 ELSE aboveIndex
           /\ belowIndex' = IF side = "above" THEN belowIndex ELSE belowIndex + 1
    /\ UNCHANGED <<minuteBars, settings, rows, barIdx, poc, vaPercentage,
                   targetVolume, vah, val, pc>>
    /\ UNCHANGED <<cvdVars, indicatorVars, devVars, appVars>>

\* one iteration of the while loop that adds the chosen row
VAExpand ==
    /\ pc = "loop"
    /\ LoopCondition(rows, accumulatedVolume, targetVolume, aboveIndex, belowIndex)
    /\ LET side == ChooseSide(rows, poc.index, aboveIndex, belowIndex)
           chosenRow == rows[chosenIndex(side, aboveIndex, belowIndex)]
       IN  /\ ~Overshoots(accumulatedVolume, chosenRow, targetVolume)
           /\ chosenSide' = side
           /\ valueAreaRows' = IF \E k \in DOMAIN valueAreaRows : valueAreaRows[k] = chosenRow.index
                               THEN valueAreaRows
                               ELSE Append(valueAreaRows, chosenRow.index)
           /\ accumulatedVolume' = RAdd(accumulatedVolume, chosenRow.totalVolume)
           /\ aboveIndex' = IF side = "above" THEN aboveIndex - 1 ELSE aboveIndex
           /\ belowIndex' = IF side = "above" THEN belowIndex ELSE belowIndex + 1
    /\ UNCHANGED <<minuteBars, settings, rows, barIdx, poc, vaPercentage,
                   targetVolume, vah, val, pc>>
    /\ UNCHANGED <<cvdVars, indicatorVars, devVars, appVars>>

\* one iteration of the while loop that ends in the break of step 6
VABreak ==
    /\ pc = "loop"
    /\ LoopCondition(rows, accumulatedVolume, targetVolume, aboveIndex, belowIndex)
    /\ LET side == ChooseSide(rows, poc.index, aboveIndex, belowIndex)
           chosenRow == rows[chosenIndex(side, aboveIndex, belowIndex)]
       IN  /\ Overshoots(accumulatedVolume, chosenRow, targetVolume)
           /\ chosenSide' = side
    /\ pc' = "sort"
    /\ UNCHANGED <<minuteBars, settings, rows, barIdx, poc, vaPercentage,
                   targetVolume, accumulatedVolume, valueAreaRows, aboveIndex,
                   belowIndex, vah, val>>
    /\ UNCHANGED <<cvdVars, indicatorVars, devVars, appVars>>

\* the while test fails
VAExit ==
    /\ pc = "loop"
    /\ ~LoopCondition(rows, accumulatedVolume, targetVolume, aboveIndex, belowIndex)
    /\ pc' = "sort"
    /\ UNCHANGED <<minuteBars, settings, rows, barIdx, poc, vaPercentage,
                   targetVolume, accumulatedVolume, valueAreaRows, aboveIndex,
                   belowIndex, chosenSide, vah, val>>
    /\ UNCHANGED <<cvdVars, indicatorVars, devVars, appVars>>

\* Step 9 and the return
VAFinish ==
    /\ pc = "sort"
    /\ vah' = SortedFirst(rows, valueAreaRows)
    /\ val' = SortedLast(rows, valueAreaRows)
    /\ pc' = "done"
    /\ UNCHANGED <<minuteBars, settings, rows, barIdx, poc, vaPercentage,
                   targetVolume, accumulatedVolume, valueAreaRows, aboveIndex,
                   belowIndex, chosenSide>>
    /\ UNCHANGED <<cvdVars, indicatorVars, devVars, appVars>>

NextVA == VAStart \/ VAExpand \/ VABreak \/ VAExit \/ VAFinish

-----------------------------------------------------------------------------
(* Initial states.                                                         *)

CvdIdle ==
    /\ candles = <<>>
    /\ oneMinCandles = <<>>
    /\ options = [anchorPeriod |-> "1D", chartTimeframe |-> 5]
    /\ cvdI = 0
    /\ cumulativeCVD = 0
    /\ currentAnchorStart = -1
    /\ cvdData = <<>>
    /\ deltas = <<>>

IndicatorsIdle ==
    /\ data = <<>>
    /\ indSettings = [period |-> 14]
    /\ smoothFn = "none"
    /\ smoothed = <<>>
    /\ rsiData = <<>>
    /\ rsiValues = <<>>
    /\ maValues = <<>>
    /\ bbUpper = <<>>
    /\ bbLower = <<>>
    /\ bullDivergences = <<>>
    /\ bearDivergences = <<>>
    /\ rsiPivotsL = <<>>
    /\ rsiPivotsH = <<>>
    /\ macdLine = <<>>
    /\ signalLine = <<>>
    /\ histogramData = <<>>
    /\ indPc = "idle"

\* neither this.config nor the config argument names the developing flags
NoFlags == [developingPOC |-> "unset", developingVA |-> "unset"]

DevIdle ==
    /\ developingData = <<>>
    /\ devI = 0
    /\ devFlags = [instance |-> NoFlags, passed |-> NoFlags]
    /\ depth = 0

\* cvd-websocket.js as loaded: no socket, no timer, an empty buffer
NoRealtimeData == [oneMinBuffer |-> <<>>, currentCVD |-> 0, lastAnchorReset |-> -1]

FeedIdle ==
    /\ cvdWebSocket = 0
    /\ cvdReconnectTimer = 0
    /\ cvdRealtimeData = NoRealtimeData
    /\ sockets = <<>>
    /\ timers = {}
    /\ delivered = 0
    /\ cvdSeries = <<>>
    /\ stopped = FALSE

\* the rays that are placed, the places in alertStore.alerts and the
\* condition rows of an alert
RayIds == {1, 2}
AlertPlaces == {1}
ConditionPlaces == {1, 2}

\* the firings an alert without a limit is followed for
MaxTriggerCount == 3

\* undefined or null: a close the candle data lacks, a lastValues key never
\* written, an empty expiration
NoValue == -1

\* no ray placed, no alert created, no evaluation made
AlertsIdle ==
    /\ horizontalRays = <<>>
    /\ nextRayId = 1
    /\ alerts = <<>>
    /\ lastValues = [key \in AlertPlaces \X ConditionPlaces |-> NoValue]
    /\ condResults = <<>>

AppIdle ==
    /\ config = [rowsLayout |-> "Number", rowSize |-> 200, valueAreaVolume |-> 70]
    /\ calls = 1
    /\ firstOutput = <<>>
    /\ FeedIdle
    /\ AlertsIdle

FrvpBlank ==
    /\ barIdx = 0
    /\ poc = NullRow
    /\ targetVolume = Zero
    /\ accumulatedVolume = Zero
    /\ valueAreaRows = <<>>
    /\ aboveIndex = 0
    /\ belowIndex = 0
    /\ chosenSide = "none"
    /\ vah = NullRow
    /\ val = NullRow

\* rows as createPriceLevelRows makes them, holding the given total volumes
withVolumes(rs, vols) ==
    [i \in DOMAIN rs |-> [rs[i] EXCEPT !.upVolume = Num(vols[i]),
                                       !.totalVolume = Num(vols[i]),
                                       !.delta = Num(vols[i])]]

\* calculatePOC and calculateValueArea called on any row set
InitVA ==
    /\ FrvpBlank
    /\ CvdIdle
    /\ IndicatorsIdle
    /\ DevIdle
    /\ AppIdle
    /\ minuteBars = <<>>
    /\ vaPercentage \in VAPercentages
    /\ \E n \in 1 .. MaxRows, high \in {0, 6} :
          /\ settings = [rowsLayout |-> "Number", rowSize |-> n, valueAreaVolume |-> vaPercentage]
          /\ \E vols \in [0 .. (n - 1) -> RowVolumes] :
                rows = withVolumes(createPriceLevelRows(Num(0), Num(high), settings), vols)
    /\ pc = "poc"

SpecVA == InitVA /\ [][CallerPOC \/ NextVA]_vars

\* the bars calculateProfile is given, one per minute: low <= open, close <=
\* high, with open and close at the two ends of the bar's range
BarShapes ==
    {[open |-> o, high |-> h, low |-> l, close |-> c, volume |-> v] :
        o \in BarPrices, h \in BarPrices, l \in BarPrices, c \in BarPrices, v \in BarVolumes}
ValidBar(b) == /\ b.low <= b.high
               /\ {b.open, b.close} = {b.low, b.high}

PercentSizes == {100 \div k : k \in 1 .. MaxRowSize}

InitProfile ==
    /\ FrvpBlank
    /\ CvdIdle
    /\ IndicatorsIdle
    /\ DevIdle
    /\ AppIdle
    /\ \E n \in 0 .. MaxBars :
          \E shape \in [1 .. n -> {b \in BarShapes : ValidBar(b)}] :
             minuteBars = [k \in 1 .. n |->
                              [time |-> (k - 1) * 60, open |-> shape[k].open,
                               high |-> shape[k].high, low |-> shape[k].low,
                               close |-> shape[k].close, volume |-> shape[k].volume]]
    /\ \E layout \in Layouts :
          \E size \in (IF layout = "Percentage" THEN PercentSizes ELSE 1 .. MaxRowSize) :
             \E vav \in {0, 50} :
                settings = [rowsLayout |-> layout, rowSize |-> size, valueAreaVolume |-> vav]
    /\ rows = <<>>
    /\ vaPercentage = 0
    /\ pc = "start"

NextProfile == ProfileEmpty \/ ProfileRows \/ ProfileDistribute \/ ProfilePOC \/ NextVA

SpecProfile == InitProfile /\ [][NextProfile]_vars

-----------------------------------------------------------------------------
(* The CVD engine (calculateCVD and what it calls).  Volumes are integers  *)
(* here, so the cumulative deltas are integers.                            *)

NoBar == [time |-> -1, open |-> 0, close |-> 0, volume |-> 0]

\* calculateDeltaForBar(bar, previousBar, previousDelta); previousBar is
\* NoBar for null
calculateDeltaForBarSigned(bar, previousBar, previousDelta) ==
    IF bar.close > bar.open THEN bar.volume
    ELSE IF bar.close < bar.open THEN -bar.volume
    ELSE IF previousBar # NoBar /\ bar.close > previousBar.close THEN bar.volume
    ELSE IF previousBar # NoBar /\ bar.close < previousBar.close THEN -bar.volume
    ELSE IF previousDelta > 0 THEN bar.volume ELSE -bar.volume
calculateDeltaForBar(bar, previousBar, previousDelta) ==
    IF bar.close > bar.open THEN bar.volume
    ELSE IF bar.close < bar.open THEN -bar.volume
    ELSE IF previousBar # NoBar /\ bar.close > previousBar.close THEN bar.volume
    ELSE IF previousBar # NoBar /\ bar.close < previousBar.close THEN -bar.volume
    ELSE IF previousDelta # 0
         THEN (IF previousDelta > 0 THEN bar.volume ELSE -bar.volume)
         ELSE 0

\* the loop of calculate1MinuteDeltas from index i on, with its three
\* running variables; the result is the array of {time, delta, cumulativeDelta}
RECURSIVE deltasFrom(_, _, _, _, _)
deltasFrom(bars, i, cumulativeDelta, previousBar, previousDelta) ==
    IF i > Len(bars) THEN <<>>
    ELSE LET bar == bars[i]
             delta == calculateDeltaForBar(bar, previousBar, previousDelta)
         IN  <<[time |-> bar.time, delta |-> delta,
                cumulativeDelta |-> cumulativeDelta + delta]>>
             \o deltasFrom(bars, i + 1, cumulativeDelta + delta, bar, delta)

calculate1MinuteDeltas(bars) == deltasFrom(bars, 1, 0, NoBar, 0)

Max2(a, b) == IF a > b THEN a ELSE b
Min2(a, b) == IF a < b THEN a ELSE b

\* the for loop of calculateCVDForCandle from index i on
RECURSIVE foldDeltas(_, _, _)
foldDeltas(ds, i, acc) ==
    IF i > Len(ds) THEN acc
    ELSE LET runningCVD == acc.closeCVD + ds[i].delta
         IN  foldDeltas(ds, i + 1,
                        [acc EXCEPT !.closeCVD = runningCVD,
                                    !.highCVD = Max2(acc.highCVD, runningCVD),
                                    !.lowCVD = Min2(acc.lowCVD, runningCVD)])

\* (a variant whose running total starts from 0 instead of the open)
calculateCVDForCandleFromZero(relevant, previousCloseCVD) ==
    LET flat == [openCVD |-> previousCloseCVD, highCVD |-> previousCloseCVD,
                 lowCVD |-> previousCloseCVD, closeCVD |-> previousCloseCVD]
    IN  IF Len(relevant) = 0 THEN flat
        ELSE foldDeltas(calculate1MinuteDeltas(relevant), 1, [flat EXCEPT !.closeCVD = 0])

calculateCVDForCandle(relevant, previousCloseCVD) ==
    LET flat == [openCVD |-> previousCloseCVD, highCVD |-> previousCloseCVD,
                 lowCVD |-> previousCloseCVD, closeCVD |-> previousCloseCVD]
    IN  IF Len(relevant) = 0 THEN flat
        ELSE foldDeltas(calculate1MinuteDeltas(relevant), 1, flat)

\* "+05:30"
IstOffset == 19800

\* getAnchorPeriodStart for '1D', '1H' and '4H'.  ('1W' and the default
\* branch read the host's own time zone and are not modelled.)
getAnchorPeriodStart(timestamp, anchorPeriod) ==
    LET ist == timestamp + IstOffset
        dayStart == (ist \div 86400) * 86400
        hour == (ist % 86400) \div 3600
    IN  CASE anchorPeriod = "1D" -> dayStart + 9 * 3600 + 15 * 60 - IstOffset
          [] anchorPeriod = "1H" -> dayStart + hour * 3600 - IstOffset
          [] anchorPeriod = "4H" ->
               LET anchorHour == IF hour >= 13 THEN 13 ELSE 9
               IN  dayStart + anchorHour * 3600 + 15 * 60 - IstOffset

\* currentAnchorStart === null || anchorStart !== currentAnchorStart
needsResetFirstOnly(current, anchorStart) == current = -1
needsReset(current, anchorStart) == current = -1 \/ anchorStart # current

\* oneMinCandles.filter(c => c.time >= candleStart && c.time < candleEnd)
relevantInclusiveEnd(bars, candleStart, candleEnd) ==
    SelectSeq(bars, LAMBDA c : c.time >= candleStart /\ c.time <= candleEnd)
relevantOneMinCandles(bars, candleStart, candleEnd) ==
    SelectSeq(bars, LAMBDA c : c.time >= candleStart /\ c.time < candleEnd)

\* one iteration of the for loop of calculateCVD
CvdStep ==
    /\ cvdI < Len(candles)
    /\ LET candle == candles[cvdI + 1]
           candleTime == candle.time
           anchorStart == getAnchorPeriodStart(candleTime, options.anchorPeriod)
           reset == needsReset(currentAnchorStart, anchorStart)
           startCVD == IF reset THEN 0 ELSE cumulativeCVD
           timeframeSeconds == options.chartTimeframe * 60
           relevant == relevantOneMinCandles(oneMinCandles, candleTime,
                                             candleTime + timeframeSeconds)
           cvdOHLC == calculateCVDForCandle(relevant, startCVD)
       IN  /\ currentAnchorStart' = IF reset THEN anchorStart ELSE currentAnchorStart
           /\ cumulativeCVD' = cvdOHLC.closeCVD
           /\ deltas' = IF Len(relevant) = 0 THEN <<>> ELSE calculate1MinuteDeltas(relevant)
           /\ cvdData' = Append(cvdData, [time |-> candleTime,
                                          open |-> cvdOHLC.openCVD,
                                          high |-> cvdOHLC.highCVD,
                                          low |-> cvdOHLC.lowCVD,
                                          close |-> cvdOHLC.closeCVD])
    /\ cvdI' = cvdI + 1
    /\ UNCHANGED <<candles, oneMinCandles, options>>
    /\ UNCHANGED <<frvpVars, indicatorVars, devVars, appVars>>

FrvpIdle ==
    /\ FrvpBlank
    /\ minuteBars = <<>>
    /\ settings = [rowsLayout |-> "Number", rowSize |-> 1, valueAreaVolume |-> 70]
    /\ rows = <<>>
    /\ vaPercentage = 70
    /\ pc = "idle"

AnchorPeriods == {"1D", "1H", "4H"}
Resolutions == {1, 2, 3}
\* 2024-01-01 12:58 and 23:58, exchange-local time (UTC+5:30)
BaseTimes == {1704094080, 1704133680}
MinutePrices == {48, 50}
MinuteVolumes == {0, 1, 2}

\* consecutive 1-minute bars from the base time on, and MaxCandles target
\* candles spaced by the chart timeframe
InitCVD ==
    /\ FrvpIdle
    /\ IndicatorsIdle
    /\ DevIdle
    /\ AppIdle
    /\ \E base \in BaseTimes, res \in Resolutions, anchor \in AnchorPeriods :
          /\ options = [anchorPeriod |-> anchor, chartTimeframe |-> res]
          /\ candles = [j \in 1 .. MaxCandles |-> [time |-> base + (j - 1) * res * 60]]
          /\ \E n \in 0 .. MaxOneMin :
                \E shape \in [1 .. n -> [open : MinutePrices, close : MinutePrices,
                                         volume : MinuteVolumes]] :
                   oneMinCandles = [k \in 1 .. n |->
                                       [time |-> base + (k - 1) * 60,
                                        open |-> shape[k].open,
                                        close |-> shape[k].close,
                                        volume |-> shape[k].volume]]
    /\ cvdI = 0
    /\ cumulativeCVD = 0
    /\ currentAnchorStart = -1
    /\ cvdData = <<>>
    /\ deltas = <<>>

SpecCVD == InitCVD /\ [][CvdStep]_vars

-----------------------------------------------------------------------------
(* The smoothing functions.  A point is {time, value}; a JavaScript index  *)
(* i into an array is position i + 1 of the sequence.  All observations    *)
(* are valid numbers and every period is at least 1.                       *)

At(seq, i) == seq[i + 1]
Point(t, v) == [time |-> t, value |-> v]

\* calculateSMA, the inner loop over j: sum and count of the valid values
RECURSIVE smaWindow(_, _, _, _)
smaWindow(pts, i, period, j) ==
    IF ~(j < period) THEN [sum |-> Zero, count |-> 0]
    ELSE LET rest == smaWindow(pts, i, period, j + 1)
         IN  IF i - j >= 0 /\ i - j < Len(pts)
             THEN [sum |-> RAdd(At(pts, i - j).value, rest.sum), count |-> rest.count + 1]
             ELSE rest

\* calculateSMA, the outer loop from index i on
RECURSIVE smaFrom(_, _, _)
smaFrom(pts, period, i) ==
    IF ~(i < Len(pts)) THEN <<>>
    ELSE IF i < period - 1 THEN smaFrom(pts, period, i + 1)
    ELSE LET w == smaWindow(pts, i, period, 0)
         IN  (IF w.count = period
              THEN <<Point(At(pts, i).time, RDiv(w.sum, Num(period)))>>
              ELSE <<>>) \o smaFrom(pts, period, i + 1)

calculateSMA(pts, period) == smaFrom(pts, period, 0)

\* k = 2 / (period + 1)
emaFactor(period) == RDiv(Num(2), Num(period + 1))

\* (value * k) + (ema * (1 - k))
emaNext(value, ema, k) == RAdd(RMul(value, k), RMul(ema, RSub(Num(1), k)))

\* the sum of the first count values of vals
RECURSIVE initialSum(_, _)
initialSum(vals, count) ==
    IF count = 0 THEN Zero ELSE RAdd(vals[count], initialSum(vals, count - 1))

\* the recurrence loop of an EMA over vals from index i on
RECURSIVE emaFrom(_, _, _, _, _)
emaFrom(times, vals, k, ema, i) ==
    IF ~(i < Len(vals)) THEN <<>>
    ELSE LET e == emaNext(At(vals, i), ema, k)
         IN  <<Point(At(times, i), e)>> \o emaFrom(times, vals, k, e, i + 1)

timesOf(seq) == [x \in DOMAIN seq |-> seq[x].time]
closesOf(bars) == [x \in DOMAIN bars |-> Num(bars[x].close)]
valuesOf(pts) == [x \in DOMAIN pts |-> pts[x].value]

\* (a variant seeded with the first observation and emitting from index 0)
emaSeededWithFirst(times, vals, period) ==
    IF Len(vals) < period THEN <<>>
    ELSE <<Point(At(times, 0), At(vals, 0))>>
         \o emaFrom(times, vals, emaFactor(period), At(vals, 0), 1)

\* the EMA of calculateEMA and of calculateEMAFromLine: nothing below period
\* observations, the seed (their simple average) at index period - 1, then
\* the recurrence
emaSeeded(times, vals, period) ==
    IF Len(vals) < period THEN <<>>
    ELSE LET ema == RDiv(initialSum(vals, period), Num(period))
         IN  <<Point(At(times, period - 1), ema)>>
             \o emaFrom(times, vals, emaFactor(period), ema, period)

\* calculateEMA(data, period) on candles (data[i].close)
calculateEMA(bars, period) == emaSeeded(timesOf(bars), closesOf(bars), period)

\* (a variant of the RMA recurrence without the "else": it also runs while
\* the seed is being summed)
RECURSIVE rmaFromEager(_, _, _, _, _)
rmaFromEager(pts, period, i, sum, rmaData) ==
    IF ~(i < Len(pts)) THEN rmaData
    ELSE LET value == At(pts, i).value
         IN  rmaFromEager(pts, period, i + 1, RAdd(sum, value),
                          Append(rmaData, Point(At(pts, i).time, RDiv(RAdd(sum, value), Num(i + 1)))))

\* calculateRMA, the loop from index i on
RECURSIVE rmaFrom(_, _, _, _, _)
rmaFrom(pts, period, i, sum, rmaData) ==
    IF ~(i < Len(pts)) THEN rmaData
    ELSE LET value == At(pts, i).value
             alpha == RDiv(Num(1), Num(period))
         IN  IF i < period
             THEN rmaFrom(pts, period, i + 1, RAdd(sum, value),
                          IF i = period - 1
                          THEN Append(rmaData, Point(At(pts, i).time,
                                                     RDiv(RAdd(sum, value), Num(period))))
                          ELSE rmaData)
             ELSE LET prevRma == rmaData[Len(rmaData)].value
                      rma == RAdd(RMul(alpha, value), RMul(RSub(Num(1), alpha), prevRma))
                  IN  rmaFrom(pts, period, i + 1, sum,
                              Append(rmaData, Point(At(pts, i).time, rma)))

calculateRMA(pts, period) == rmaFrom(pts, period, 0, Zero, <<>>)

\* calculateWMA, the inner loop: the sum of data[i - j].value * (period - j)
RECURSIVE wmaWindow(_, _, _, _)
wmaWindow(pts, i, period, j) ==
    IF ~(j < period) THEN Zero
    ELSE RAdd(RMul(At(pts, i - j).value, Num(period - j)), wmaWindow(pts, i, period, j + 1))

RECURSIVE wmaFrom(_, _, _)
wmaFrom(pts, period, i) ==
    IF ~(i < Len(pts)) THEN <<>>
    ELSE LET weightSum == RDiv(Num(period * (period + 1)), Num(2))
         IN  <<Point(At(pts, i).time, RDiv(wmaWindow(pts, i, period, 0), weightSum))>>
             \o wmaFrom(pts, period, i + 1)

calculateWMA(pts, period) == wmaFrom(pts, period, period - 1)

\* the inner loop of a VWMA: pvSum and vSum over the window ending at i;
\* vols[x] is the volume that goes with vals[x]
RECURSIVE vwmaWindow(_, _, _, _, _)
vwmaWindow(vals, vols, i, period, j) ==
    IF ~(j < period) THEN [pvSum |-> Zero, vSum |-> 0]
    ELSE LET rest == vwmaWindow(vals, vols, i, period, j + 1)
         IN  [pvSum |-> RAdd(RMul(At(vals, i - j), Num(At(vols, i - j))), rest.pvSum),
              vSum |-> At(vols, i - j) + rest.vSum]

RECURSIVE vwmaFrom(_, _, _, _, _)
vwmaFrom(times, vals, vols, period, i) ==
    IF ~(i < Len(vals)) THEN <<>>
    ELSE LET w == vwmaWindow(vals, vols, i, period, 0)
         IN  <<Point(At(times, i),
                     IF w.vSum = 0 THEN Zero ELSE RDiv(w.pvSum, Num(w.vSum)))>>
             \o vwmaFrom(times, vals, vols, period, i + 1)

\* calculateVWMA(data, 'close', period) on candles
calculateVWMA(bars, period) ==
    vwmaFrom(timesOf(bars), closesOf(bars), [x \in DOMAIN bars |-> bars[x].volume],
             period, period - 1)

\* Math.sqrt(x), kept as the number it is the root of
Sqrt(x) == [sqrtOf |-> x]

\* calculateSTDEV, the second inner loop: the sum of (data[i - j].value - mean)^2
RECURSIVE sqDiffWindow(_, _, _, _, _)
sqDiffWindow(pts, i, period, mean, j) ==
    IF ~(j < period) THEN Zero
    ELSE LET d == RSub(At(pts, i - j).value, mean)
         IN  RAdd(RMul(d, d), sqDiffWindow(pts, i, period, mean, j + 1))

RECURSIVE stdevFrom(_, _, _)
stdevFrom(pts, period, i) ==
    IF ~(i < Len(pts)) THEN <<>>
    ELSE LET mean == RDiv(initialSum([x \in 1 .. period |-> At(pts, i - (x - 1)).value], period),
                          Num(period))
             sqDiffSum == sqDiffWindow(pts, i, period, mean, 0)
         IN  <<Point(At(pts, i).time, Sqrt(RDiv(sqDiffSum, Num(period))))>>
             \o stdevFrom(pts, period, i + 1)

calculateSTDEV(pts, period) == stdevFrom(pts, period, period - 1)

-----------------------------------------------------------------------------
(* RSI: calculateRSI (rsi.js) and calculateAdvancedRSI.                    *)

\* data[i].close - data[i - 1].close
changeOf(bars, i) == At(bars, i).close - At(bars, i - 1).close

\* gains and losses of calculateRSI: entry i - 1 is made from data[i]
gainsOf(bars) ==
    [i \in 1 .. (Len(bars) - 1) |-> Num(IF changeOf(bars, i) > 0 THEN changeOf(bars, i) ELSE 0)]
lossesOf(bars) ==
    [i \in 1 .. (Len(bars) - 1) |-> Num(IF changeOf(bars, i) < 0 THEN -changeOf(bars, i) ELSE 0)]

\* (a variant without the 1 + in the denominator)
rsOfBareRatio(avgGain, avgLoss) ==
    RSub(Num(100), RDiv(Num(100), RDiv(avgGain, avgLoss)))

\* 100 - (100 / (1 + rs))
rsOf(avgGain, avgLoss) ==
    RSub(Num(100), RDiv(Num(100), RAdd(Num(1), RDiv(avgGain, avgLoss))))

\* the if/else of calculateRSI on avgLoss === 0
rsiOf(avgGain, avgLoss) ==
    IF avgLoss = Zero THEN (IF avgGain = Zero THEN Num(50) ELSE Num(100))
    ELSE rsOf(avgGain, avgLoss)

\* Math.max(0, Math.min(100, rsi))
clampRsi(rsi) == RMax(Zero, RMin(Num(100), rsi))

\* (avg * (period - 1) + x) / period
wilderNext(avg, x, period) == RDiv(RAdd(RMul(avg, Num(period - 1)), x), Num(period))

\* the second loop of calculateRSI from index i on
RECURSIVE rsiFrom(_, _, _, _, _, _, _)
rsiFrom(bars, period, gains, losses, avgGain, avgLoss, i) ==
    IF ~(i < Len(gains)) THEN <<>>
    ELSE LET g == wilderNext(avgGain, At(gains, i), period)
             l == wilderNext(avgLoss, At(losses, i), period)
             rsi == clampRsi(rsiOf(g, l))
         IN  (IF i + 1 < Len(bars) THEN <<Point(At(bars, i + 1).time, rsi)>> ELSE <<>>)
             \o rsiFrom(bars, period, gains, losses, g, l, i + 1)

calculateRSI(bars, period) ==
    IF Len(bars) <= period THEN <<>>
    ELSE LET gains == gainsOf(bars)
             losses == lossesOf(bars)
             avgGain == RDiv(initialSum(gains, period), Num(period))
             avgLoss == RDiv(initialSum(losses, period), Num(period))
         IN  (IF period < Len(bars)
              THEN <<Point(At(bars, period).time, rsiOf(avgGain, avgLoss))>>
              ELSE <<>>)
             \o rsiFrom(bars, period, gains, losses, avgGain, avgLoss, period)

\* x || d for a number x
orDefault(x, d) == IF x = 0 THEN d ELSE x

\* gains and losses of calculateAdvancedRSI: points stamped data[i].time
gainPoints(bars) ==
    [i \in 1 .. (Len(bars) - 1) |->
        Point(At(bars, i).time, Num(Max2(changeOf(bars, i), 0)))]
lossPoints(bars) ==
    [i \in 1 .. (Len(bars) - 1) |->
        Point(At(bars, i).time, Num(Max2(-changeOf(bars, i), 0)))]

\* the if/else chain of calculateAdvancedRSI on down === 0, up === 0
advancedRsiOf(up, down) ==
    IF down = Zero THEN Num(100)
    ELSE IF up = Zero THEN Zero
    ELSE rsOf(up, down)

\* step 1 of calculateAdvancedRSI
rsiValuesOf(bars, period) ==
    LET avgGains == calculateRMA(gainPoints(bars), period)
        avgLosses == calculateRMA(lossPoints(bars), period)
    IN  [i \in DOMAIN avgGains |->
            Point(avgGains[i].time, advancedRsiOf(avgGains[i].value, avgLosses[i].value))]

\* the smoothing of step 2 for maType 'EMA': seeded with rsiValues[0] and
\* emitting from index 0.  Reading rsiValues[0].value of an empty rsiValues
\* throws a TypeError: "threw" is then TRUE.
inlineEma(pts, maLen) ==
    IF Len(pts) = 0 THEN [threw |-> TRUE, ma |-> <<>>]
    ELSE [threw |-> FALSE,
          ma |-> <<Point(At(pts, 0).time, At(pts, 0).value)>>
                 \o emaFrom(timesOf(pts), valuesOf(pts), emaFactor(maLen), At(pts, 0).value, 1)]

\* timeToVolumeMap.get(time) || 0: the volume of the last candle set for
\* that time
volumeAt(bars, t) ==
    LET at == {k \in DOMAIN bars : bars[k].time = t}
    IN  IF at = {} THEN 0
        ELSE bars[CHOOSE k \in at : \A m \in at : m <= k].volume

\* step 2 of calculateAdvancedRSI: the switch on maType
smoothingOf(bars, pts, maType, maLen) ==
    CASE maType \in {"SMA", "BB"} -> [threw |-> FALSE, ma |-> calculateSMA(pts, maLen)]
      [] maType = "EMA" -> inlineEma(pts, maLen)
      [] maType = "SMMA" -> [threw |-> FALSE, ma |-> calculateRMA(pts, maLen)]
      [] maType = "WMA" -> [threw |-> FALSE, ma |-> calculateWMA(pts, maLen)]
      [] maType = "VWMA" ->
           [threw |-> FALSE,
            ma |-> vwmaFrom(timesOf(pts), valuesOf(pts),
                            [x \in DOMAIN pts |-> volumeAt(bars, pts[x].time)],
                            maLen, maLen - 1)]
      [] OTHER -> [threw |-> FALSE, ma |-> <<>>]

\* step 3: one band; std.find(sd => sd.time === m.time) is the first match
bandOf(ma, std, mult, sign) ==
    LET matched == SelectSeq(ma, LAMBDA m : \E x \in DOMAIN std : std[x].time = m.time)
    IN  [x \in DOMAIN matched |->
            LET m == matched[x]
                s == std[CHOOSE y \in DOMAIN std :
                            /\ std[y].time = m.time
                            /\ \A z \in DOMAIN std : std[z].time = m.time => y <= z]
            IN  [time |-> m.time,
                 value |-> [ma |-> m.value, stdev |-> s.value, mult |-> mult, sign |-> sign]]]

lbLeft == 5
lbRight == 5
rangeUpper == 60
rangeLower == 5

\* (a variant of the pivot test that lets an equal neighbour pass)
isPivotLowOrEqual(pts, i, left, right) ==
    \A j \in (i - left) .. (i + right) :
        j = i \/ ~RLt(At(pts, j).value, At(pts, i).value)

\* the inner loop of findPivotLows: no other point of the window is <= val
isPivotLow(pts, i, left, right) ==
    \A j \in (i - left) .. (i + right) :
        j = i \/ ~RLe(At(pts, j).value, At(pts, i).value)

\* the inner loop of findPivotHighs: no other point of the window is >= val
isPivotHigh(pts, i, left, right) ==
    \A j \in (i - left) .. (i + right) :
        j = i \/ ~RLe(At(pts, i).value, At(pts, j).value)

Pivot(pts, i) == [index |-> i, time |-> At(pts, i).time, value |-> At(pts, i).value]

RECURSIVE pivotLowsFrom(_, _, _, _)
pivotLowsFrom(pts, left, right, i) ==
    IF ~(i < Len(pts) - right) THEN <<>>
    ELSE (IF isPivotLow(pts, i, left, right) THEN <<Pivot(pts, i)>> ELSE <<>>)
         \o pivotLowsFrom(pts, left, right, i + 1)

RECURSIVE pivotHighsFrom(_, _, _, _)
pivotHighsFrom(pts, left, right, i) ==
    IF ~(i < Len(pts) - right) THEN <<>>
    ELSE (IF isPivotHigh(pts, i, left, right) THEN <<Pivot(pts, i)>> ELSE <<>>)
         \o pivotHighsFrom(pts, left, right, i + 1)

findPivotLows(pts, left, right) == pivotLowsFrom(pts, left, right, left)
findPivotHighs(pts, left, right) == pivotHighsFrom(pts, left, right, left)

\* timeToCandleMap.get(time): the last candle set for that time, if any
hasCandleAt(bars, t) == \E k \in DOMAIN bars : bars[k].time = t
candleAt(bars, t) ==
    bars[CHOOSE k \in DOMAIN bars :
            bars[k].time = t /\ \A m \in DOMAIN bars : bars[m].time = t => m <= k]

\* barsBetween >= rangeLower && barsBetween <= rangeUpper
inRange(curr, prev) ==
    curr.index - prev.index >= rangeLower /\ curr.index - prev.index <= rangeUpper

\* the body of the bullish loop for pivots[i]: does it push?
isBullish(bars, curr, prev) ==
    /\ inRange(curr, prev)
    /\ hasCandleAt(bars, curr.time) /\ hasCandleAt(bars, prev.time)
    /\ candleAt(bars, curr.time).low < candleAt(bars, prev.time).low
    /\ RLt(prev.value, curr.value)

\* the body of the bearish loop for pivots[i]: does it push?
isBearish(bars, curr, prev) ==
    /\ inRange(curr, prev)
    /\ hasCandleAt(bars, curr.time) /\ hasCandleAt(bars, prev.time)
    /\ candleAt(bars, curr.time).high > candleAt(bars, prev.time).high
    /\ RLt(curr.value, prev.value)

\* the bullish loop and the bearish loop of step 4, from pivots[i] on
RECURSIVE bullFrom(_, _, _)
bullFrom(bars, pivots, i) ==
    IF ~(i < Len(pivots)) THEN <<>>
    ELSE (IF isBullish(bars, At(pivots, i), At(pivots, i - 1))
          THEN <<[time |-> At(pivots, i).time, value |-> At(pivots, i).value, text |-> "Bull"]>>
          ELSE <<>>) \o bullFrom(bars, pivots, i + 1)

RECURSIVE bearFrom(_, _, _)
bearFrom(bars, pivots, i) ==
    IF ~(i < Len(pivots)) THEN <<>>
    ELSE (IF isBearish(bars, At(pivots, i), At(pivots, i - 1))
          THEN <<[time |-> At(pivots, i).time, value |-> At(pivots, i).value, text |-> "Bear"]>>
          ELSE <<>>) \o bearFrom(bars, pivots, i + 1)

-----------------------------------------------------------------------------
(* The RSI functions as a state machine: calculateRSI, then                *)
(* calculateAdvancedRSI on the same bars, one action per numbered step.    *)
(* indPc: "rsi", "advanced", "smoothing", "bands", "divergence", "done",   *)
(* and "error" when a TypeError was thrown.                                *)

\* calculateRSI(data, period)
RsiCall ==
    /\ indPc = "rsi"
    /\ rsiData' = calculateRSI(data, indSettings.rsiPeriod)
    /\ indPc' = "advanced"
    /\ UNCHANGED <<data, indSettings, smoothFn, smoothed, rsiValues, maValues, bbUpper,
                   bbLower, bullDivergences, bearDivergences, rsiPivotsL, rsiPivotsH,
                   macdLine, signalLine, histogramData>>
    /\ UNCHANGED <<frvpVars, cvdVars, devVars, appVars>>

\* calculateAdvancedRSI, step 1
AdvRsi ==
    /\ indPc = "advanced"
    /\ rsiValues' = rsiValuesOf(data, orDefault(indSettings.rsiPeriod, 14))
    /\ indPc' = "smoothing"
    /\ UNCHANGED <<data, indSettings, smoothFn, smoothed, rsiData, maValues, bbUpper,
                   bbLower, bullDivergences, bearDivergences, rsiPivotsL, rsiPivotsH,
                   macdLine, signalLine, histogramData>>
    /\ UNCHANGED <<frvpVars, cvdVars, devVars, appVars>>

\* calculateAdvancedRSI, step 2
AdvSmoothing ==
    /\ indPc = "smoothing"
    /\ LET s == smoothingOf(data, rsiValues, indSettings.maType,
                            orDefault(indSettings.maLength, 14))
       IN  IF s.threw
           THEN indPc' = "error" /\ UNCHANGED maValues
           ELSE indPc' = "bands" /\ maValues' = s.ma
    /\ UNCHANGED <<data, indSettings, smoothFn, smoothed, rsiData, rsiValues, bbUpper,
                   bbLower, bullDivergences, bearDivergences, rsiPivotsL, rsiPivotsH,
                   macdLine, signalLine, histogramData>>
    /\ UNCHANGED <<frvpVars, cvdVars, devVars, appVars>>

\* calculateAdvancedRSI, step 3
AdvBands ==
    /\ indPc = "bands"
    /\ IF indSettings.maType = "BB"
       THEN LET std == calculateSTDEV(rsiValues, orDefault(indSettings.maLength, 14))
                mult == orDefault(indSettings.bbMult, 2)
            IN  /\ bbUpper' = bandOf(maValues, std, mult, 1)
                /\ bbLower' = bandOf(maValues, std, mult, -1)
       ELSE UNCHANGED <<bbUpper, bbLower>>
    /\ indPc' = "divergence"
    /\ UNCHANGED <<data, indSettings, smoothFn, smoothed, rsiData, rsiValues, maValues,
                   bullDivergences, bearDivergences, rsiPivotsL, rsiPivotsH,
                   macdLine, signalLine, histogramData>>
    /\ UNCHANGED <<frvpVars, cvdVars, devVars, appVars>>

\* calculateAdvancedRSI, step 4 and the return
AdvDivergence ==
    /\ indPc = "divergence"
    /\ IF indSettings.calculateDivergence
       THEN LET pivotsL == findPivotLows(rsiValues, lbLeft, lbRight)
                pivotsH == findPivotHighs(rsiValues, lbLeft, lbRight)
            IN  /\ rsiPivotsL' = pivotsL
                /\ rsiPivotsH' = pivotsH
                /\ bullDivergences' = bullFrom(data, pivotsL, 1)
                /\ bearDivergences' = bearFrom(data, pivotsH, 1)
       ELSE UNCHANGED <<rsiPivotsL, rsiPivotsH, bullDivergences, bearDivergences>>
    /\ indPc' = "done"
    /\ UNCHANGED <<data, indSettings, smoothFn, smoothed, rsiData, rsiValues, maValues,
                   bbUpper, bbLower, macdLine, signalLine, histogramData>>
    /\ UNCHANGED <<frvpVars, cvdVars, devVars, appVars>>

NextRSI == RsiCall \/ AdvRsi \/ AdvSmoothing \/ AdvBands \/ AdvDivergence

MaxIndBars == 5
MaxPeriod == 2

CloseValues == {1, 2, 3}
MaTypes == {"None", "SMA", "EMA", "SMMA", "WMA", "VWMA", "BB"}
\* the volumes of the bars: none, one on every bar, or on every second bar
VolumePatterns == {"zero", "one", "alternating"}
volumeOfPattern(pattern, k) ==
    CASE pattern = "zero" -> 0
      [] pattern = "one" -> 1
      [] OTHER -> k % 2

\* bars one minute apart with the given closes; only the fields the
\* indicator functions read
barsOf(closes, pattern) ==
    [k \in DOMAIN closes |->
        [time |-> k * 60, close |-> closes[k], value |-> Num(closes[k]),
         low |-> closes[k], high |-> closes[k],
         volume |-> volumeOfPattern(pattern, k)]]

IndicatorInputs ==
    /\ smoothFn = "none"
    /\ smoothed = <<>>
    /\ rsiData = <<>>
    /\ rsiValues = <<>>
    /\ maValues = <<>>
    /\ bbUpper = <<>>
    /\ bbLower = <<>>
    /\ bullDivergences = <<>>
    /\ bearDivergences = <<>>
    /\ rsiPivotsL = <<>>
    /\ rsiPivotsH = <<>>
    /\ macdLine = <<>>
    /\ signalLine = <<>>
    /\ histogramData = <<>>

\* (the bands are tried with lengths 1 and 2: the squares of a longer window's
\* deviations do not fit the 32-bit integers of the arithmetic above)
InitRSI ==
    /\ FrvpIdle
    /\ CvdIdle
    /\ DevIdle
    /\ AppIdle
    /\ IndicatorInputs
    /\ \E n \in 0 .. MaxIndBars :
          \E closes \in [1 .. n -> CloseValues] :
             \E maType \in MaTypes :
                \E pattern \in (IF maType = "VWMA" THEN VolumePatterns ELSE {"one"}) :
                   /\ data = barsOf(closes, pattern)
                   /\ \E rsiPeriod \in 1 .. MaxPeriod,
                         maLength \in (IF maType = "BB" THEN {1, 2} ELSE 1 .. MaxPeriod) :
                         indSettings = [rsiPeriod |-> rsiPeriod, maType |-> maType,
                                        maLength |-> maLength, bbMult |-> 2,
                                        calculateDivergence |-> TRUE]
    /\ indPc = "rsi"

SpecRSI == InitRSI /\ [][NextRSI]_vars

-----------------------------------------------------------------------------
(* calculateMACD (macd.js), one action per series it builds.               *)

\* Map.get(t) on a map built from [d.time, d.value] pairs: the value of the
\* last point with that time
hasTime(pts, t) == \E x \in DOMAIN pts : pts[x].time = t
valueAtTime(pts, t) ==
    pts[CHOOSE x \in DOMAIN pts :
           pts[x].time = t /\ \A y \in DOMAIN pts : pts[y].time = t => y <= x].value

\* the loop over data that builds macdLine
macdLineOf(bars, fastLength, slowLength) ==
    LET fastEMA == calculateEMA(bars, fastLength)
        slowEMA == calculateEMA(bars, slowLength)
        both == SelectSeq(bars, LAMBDA b : hasTime(fastEMA, b.time) /\ hasTime(slowEMA, b.time))
    IN  [x \in DOMAIN both |->
            Point(both[x].time,
                  RSub(valueAtTime(fastEMA, both[x].time), valueAtTime(slowEMA, both[x].time)))]

\* calculateEMAFromLine(lineData, period)
calculateEMAFromLine(lineData, period) ==
    LET calculated == emaSeeded(timesOf(lineData), valuesOf(lineData), period)
        kept == SelectSeq(lineData, LAMBDA d : hasTime(calculated, d.time))
    IN  [x \in DOMAIN kept |-> Point(kept[x].time, valueAtTime(calculated, kept[x].time))]

\* the loop over macdLine that builds histogramData
histogramOf(line, signal) ==
    LET kept == SelectSeq(line, LAMBDA m : hasTime(signal, m.time))
    IN  [x \in DOMAIN kept |->
            Point(kept[x].time, RSub(kept[x].value, valueAtTime(signal, kept[x].time)))]

MacdLine ==
    /\ indPc = "macd"
    /\ macdLine' = macdLineOf(data, indSettings.fastLength, indSettings.slowLength)
    /\ indPc' = "signal"
    /\ UNCHANGED <<data, indSettings, smoothFn, smoothed, rsiData, rsiValues, maValues,
                   bbUpper, bbLower, bullDivergences, bearDivergences, rsiPivotsL,
                   rsiPivotsH, signalLine, histogramData>>
    /\ UNCHANGED <<frvpVars, cvdVars, devVars, appVars>>

MacdSignal ==
    /\ indPc = "signal"
    /\ signalLine' = calculateEMAFromLine(macdLine, indSettings.signalLength)
    /\ indPc' = "histogram"
    /\ UNCHANGED <<data, indSettings, smoothFn, smoothed, rsiData, rsiValues, maValues,
                   bbUpper, bbLower, bullDivergences, bearDivergences, rsiPivotsL,
                   rsiPivotsH, macdLine, histogramData>>
    /\ UNCHANGED <<frvpVars, cvdVars, devVars, appVars>>

MacdHistogram ==
    /\ indPc = "histogram"
    /\ histogramData' = histogramOf(macdLine, signalLine)
    /\ indPc' = "done"
    /\ UNCHANGED <<data, indSettings, smoothFn, smoothed, rsiData, rsiValues, maValues,
                   bbUpper, bbLower, bullDivergences, bearDivergences, rsiPivotsL,
                   rsiPivotsH, macdLine, signalLine>>
    /\ UNCHANGED <<frvpVars, cvdVars, devVars, appVars>>

NextMACD == MacdLine \/ MacdSignal \/ MacdHistogram

InitMACD ==
    /\ FrvpIdle
    /\ CvdIdle
    /\ DevIdle
    /\ AppIdle
    /\ IndicatorInputs
    /\ \E n \in 0 .. MaxIndBars :
          \E closes \in [1 .. n -> CloseValues] : data = barsOf(closes, "one")
    /\ \E fastLength \in 1 .. MaxPeriod, slowLength \in 1 .. MaxPeriod,
          signalLength \in 1 .. MaxPeriod :
             indSettings = [fastLength |-> fastLength, slowLength |-> slowLength,
                            signalLength |-> signalLength]
    /\ indPc = "macd"

SpecMACD == InitMACD /\ [][NextMACD]_vars

-----------------------------------------------------------------------------
(* The smoothing functions called on their own.                            *)

SmoothFns == {"calculateSMA", "calculateEMA", "calculateRMA", "calculateWMA",
              "calculateVWMA", "calculateSTDEV"}

smoothingResult(fn, bars, period) ==
    CASE fn = "calculateSMA" -> calculateSMA(bars, period)
      [] fn = "calculateEMA" -> calculateEMA(bars, period)
      [] fn = "calculateRMA" -> calculateRMA(bars, period)
      [] fn = "calculateWMA" -> calculateWMA(bars, period)
      [] fn = "calculateVWMA" -> calculateVWMA(bars, period)
      [] fn = "calculateSTDEV" -> calculateSTDEV(bars, period)

\* one call fn(data, period); a second call is a call of the same function
SmoothCall(fn) ==
    /\ indPc = "smooth"
    /\ IF calls = 1 THEN TRUE ELSE fn = firstOutput.smoothFn
    /\ smoothFn' = fn
    /\ smoothed' = smoothingResult(fn, data, indSettings.period)
    /\ indPc' = "done"
    /\ UNCHANGED <<data, indSettings, rsiData, rsiValues, maValues, bbUpper, bbLower,
                   bullDivergences, bearDivergences, rsiPivotsL, rsiPivotsH,
                   macdLine, signalLine, histogramData>>
    /\ UNCHANGED <<frvpVars, cvdVars, devVars, appVars>>

NextSmooth == \E fn \in SmoothFns : SmoothCall(fn)

InitSmooth ==
    /\ FrvpIdle
    /\ CvdIdle
    /\ DevIdle
    /\ AppIdle
    /\ IndicatorInputs
    /\ \E n \in 0 .. MaxIndBars :
          \E closes \in [1 .. n -> CloseValues], pattern \in VolumePatterns :
             data = barsOf(closes, pattern)
    /\ \E period \in 1 .. (MaxPeriod + 1) : indSettings = [period |-> period]
    /\ indPc = "smooth"

SpecSmooth == InitSmooth /\ [][NextSmooth]_vars

-----------------------------------------------------------------------------
(* FRVPCalculator.calculateDeveloping.  Each sample is a whole             *)
(* calculateProfile call on a prefix of the bars; that call is computed    *)
(* here by operators that follow the same steps as the actions above.      *)

\* A value that several later expressions read is bound once, as the only
\* element of a singleton set: x \in {e} stands for `const x = e'.

\* distributeVolume(bars, rows): bars.forEach from bar k on
RECURSIVE distributeFrom(_, _, _)
distributeFrom(bars, rs, k) ==
    IF k > Len(bars) THEN rs
    ELSE CHOOSE out \in {distributeFrom(bars, next, k + 1) :
                            next \in {distributeBar(bars[k], rs)}} : TRUE

\* the while loop of calculateValueArea; the result is the value area as
\* the sequence of row indices in insertion order
RECURSIVE valueAreaLoop(_, _, _, _, _, _, _)
valueAreaLoop(rs, pocIndex, target, acc, va, above, below) ==
    IF ~LoopCondition(rs, acc, target, above, below) THEN va
    ELSE LET side == ChooseSide(rs, pocIndex, above, below)
             chosenRow == rs[chosenIndex(side, above, below)]
         IN  IF Overshoots(acc, chosenRow, target) THEN va
             ELSE valueAreaLoop(rs, pocIndex, target,
                                RAdd(acc, chosenRow.totalVolume),
                                IF \E x \in DOMAIN va : va[x] = chosenRow.index
                                THEN va ELSE Append(va, chosenRow.index),
                                IF side = "above" THEN above - 1 ELSE above,
                                IF side = "above" THEN below ELSE below + 1)

\* calculateValueArea(rows, poc, vaPercentage): { vah, val }
calculateValueArea(rs, p, percentage) ==
    LET totalVolume == totalVolumeOf(rs)
    IN  IF totalVolume = Zero THEN [vah |-> p, val |-> p]
        ELSE LET target == RMul(totalVolume, RDiv(Num(percentage), Num(100)))
                 va == valueAreaLoop(rs, p.index, target, p.totalVolume,
                                     <<p.index>>, p.index - 1, p.index + 1)
             IN  [vah |-> SortedFirst(rs, va), val |-> SortedLast(rs, va)]

\* calculateProfile from calculatePOC on: it throws on an empty row list
profileOfRows(rs, st) ==
    IF DOMAIN rs = {} THEN [threw |-> TRUE]
    ELSE CHOOSE out \in
            {LET area == calculateValueArea(rs, p, vaArgument(st))
             IN  [threw |-> FALSE, poc |-> p.priceLevel,
                  vah |-> area.vah.priceLevel, val |-> area.val.priceLevel] :
             p \in {calculatePOC(rs)}} : TRUE

\* calculateProfile(bars, settings) with the developing flags off: "threw"
\* when it throws, else the price levels calculateDeveloping reads
calculateProfile(bars, st) ==
    IF Len(bars) = 0 THEN [threw |-> TRUE]
    ELSE CHOOSE out \in
            {profileOfRows(rs, st) :
             rs \in {distributeFrom(bars, made, 1) :
                      made \in {createPriceLevelRows(Num(profileLowOf(bars)),
                                                     Num(profileHighOf(bars)), st)}}} : TRUE

SamplePoints == 50

\* Math.max(1, Math.floor(minuteBars.length / 50))
stepOf(n) == Max2(1, n \div SamplePoints)

\* const developingData = []; const step = ...; let i = step
DevStart ==
    /\ pc = "developing"
    /\ developingData' = <<>>
    /\ devI' = stepOf(Len(minuteBars))
    /\ pc' = "sampling"
    /\ UNCHANGED <<minuteBars, settings, rows, barIdx, poc, vaPercentage,
                   targetVolume, accumulatedVolume, valueAreaRows, aboveIndex,
                   belowIndex, chosenSide, vah, val>>
    /\ UNCHANGED <<cvdVars, indicatorVars, appVars, devFlags, depth>>

\* const settings = { ...this.config, ...config }, for the two developing flags
mergeFlagsInstanceLast(instance, passed) ==
    [f \in DOMAIN instance |-> IF instance[f] = "unset" THEN passed[f] ELSE instance[f]]
mergeFlags(instance, passed) ==
    [f \in DOMAIN instance |-> IF passed[f] = "unset" THEN instance[f] ELSE passed[f]]

\* settings.developingPOC || settings.developingVA
wantsDeveloping(flags) == flags.developingPOC = "true" \/ flags.developingVA = "true"

\* { ...settings, developingPOC: false, developingVA: false }
flagsOff == [developingPOC |-> "false", developingVA |-> "false"]

\* one iteration of the for loop: the sample is pushed unless the partial
\* profile threw, which the catch swallows.  The partial profile is a
\* calculateProfile call at depth 1; were its own step 5 to call
\* calculateDeveloping, the calls below it would never return a sample.
DevSample ==
    /\ pc = "sampling"
    /\ devI <= Len(minuteBars)
    /\ IF wantsDeveloping(mergeFlags(devFlags.instance, flagsOff))
       THEN /\ depth' = 2
            /\ UNCHANGED developingData
       ELSE /\ depth' = 1
            /\ \E partialBars \in {SubSeq(minuteBars, 1, devI)} :
               \E partialProfile \in {calculateProfile(partialBars, settings)} :
                   developingData' =
                      IF partialProfile.threw THEN developingData
                      ELSE Append(developingData,
                                  [timestamp |-> partialBars[Len(partialBars)].time,
                                   poc |-> partialProfile.poc,
                                   vah |-> partialProfile.vah,
                                   val |-> partialProfile.val])
    /\ devI' = devI + stepOf(Len(minuteBars))
    /\ UNCHANGED <<minuteBars, settings, rows, barIdx, poc, vaPercentage,
                   targetVolume, accumulatedVolume, valueAreaRows, aboveIndex,
                   belowIndex, chosenSide, vah, val, pc>>
    /\ UNCHANGED <<cvdVars, indicatorVars, appVars, devFlags>>

\* the loop test fails: return developingData
DevReturn ==
    /\ pc = "sampling"
    /\ ~(devI <= Len(minuteBars))
    /\ pc' = "done"
    /\ UNCHANGED <<minuteBars, settings, rows, barIdx, poc, vaPercentage,
                   targetVolume, accumulatedVolume, valueAreaRows, aboveIndex,
                   belowIndex, chosenSide, vah, val>>
    /\ UNCHANGED <<cvdVars, devVars, indicatorVars, appVars>>

NextDeveloping == DevStart \/ DevSample \/ DevReturn

MaxDevBars == 52

\* the bars of a session: a flat bar and a rising bar
DevShapes ==
    {[open |-> 1, high |-> 1, low |-> 1, close |-> 1, volume |-> 1],
     [open |-> 0, high |-> 2, low |-> 0, close |-> 2, volume |-> 1]}

\* n one-minute bars, the odd ones of one shape and the even ones of another
InitDeveloping ==
    /\ FrvpBlank
    /\ CvdIdle
    /\ IndicatorsIdle
    /\ DevIdle
    /\ AppIdle
    /\ \E n \in 1 .. MaxDevBars, odd \in DevShapes, even \in DevShapes :
          minuteBars = [k \in 1 .. n |->
                           LET shape == IF k % 2 = 1 THEN odd ELSE even
                           IN  [time |-> (k - 1) * 60, open |-> shape.open,
                                high |-> shape.high, low |-> shape.low,
                                close |-> shape.close, volume |-> shape.volume]]
    /\ \E layout \in Layouts :
          settings = [rowsLayout |-> layout,
                      rowSize |-> IF layout = "Percentage" THEN 50 ELSE 2,
                      valueAreaVolume |-> 70]
    /\ rows = <<>>
    /\ vaPercentage = 70
    /\ pc = "developing"

SpecDeveloping == InitDeveloping /\ [][NextDeveloping]_vars

-----------------------------------------------------------------------------
(* Step 4 of calculateAdvancedRSI on a long RSI line.  The state is the    *)
(* one after step 3: rsiValues holds one point per bar from bar 1 on       *)
(* (rsiPeriod 1), and of the bars only the fields step 4 reads are kept.   *)
(* Any line of values strictly between 0 and 100 is the RSI line of some   *)
(* bars (a flat close keeps the RSI where it is, a rise or a fall moves it *)
(* as far as wanted), so the line is drawn directly: the value 50          *)
(* everywhere but at three marked points.                                  *)

MaxRsiPoints == 73

MarkPositions == {4, 5, 10, 11, 65, 66, 67, 68}
MarkValues == {30, 40, 60, 70}
MarkPrices == {1, 2}

InitDivergence ==
    /\ FrvpIdle
    /\ CvdIdle
    /\ DevIdle
    /\ AppIdle
    /\ smoothFn = "none"
    /\ smoothed = <<>>
    /\ rsiData = <<>>
    /\ maValues = <<>>
    /\ bbUpper = <<>>
    /\ bbLower = <<>>
    /\ bullDivergences = <<>>
    /\ bearDivergences = <<>>
    /\ rsiPivotsL = <<>>
    /\ rsiPivotsH = <<>>
    /\ macdLine = <<>>
    /\ signalLine = <<>>
    /\ histogramData = <<>>
    /\ indSettings = [rsiPeriod |-> 1, maType |-> "None", maLength |-> 14, bbMult |-> 2,
                      calculateDivergence |-> TRUE]
    /\ \E marks \in SUBSET MarkPositions :
          /\ Cardinality(marks) = 3
          /\ \E value \in [marks -> MarkValues], price \in [marks -> MarkPrices] :
                /\ rsiValues = [x \in 1 .. MaxRsiPoints |->
                                   Point(x * 60, Num(IF (x - 1) \in marks
                                                     THEN value[x - 1] ELSE 50))]
                /\ data = [k \in 1 .. (MaxRsiPoints + 1) |->
                              [time |-> (k - 1) * 60,
                               low |-> IF (k - 2) \in marks THEN price[k - 2] ELSE 3,
                               high |-> IF (k - 2) \in marks THEN price[k - 2] + 7 ELSE 7]]
    /\ indPc = "divergence"

SpecDivergence == InitDivergence /\ [][AdvDivergence]_vars

-----------------------------------------------------------------------------
(* calculateFRVP: the merged configuration is validated, a calculator is   *)
(* made from it and calculateProfile runs with it.  The fields read here   *)
(* are integers (mergeFRVPConfig fills the missing ones from the           *)
(* defaults), so the `!== undefined' tests pass and parseInt returns the   *)
(* field itself.                                                           *)

\* parseInt(v) || d, for an integer v
parseIntOr(v, d) == IF v = 0 THEN d ELSE v

validateFRVPConfig(cfg) ==
    [cfg EXCEPT !.rowSize = Max2(1, parseIntOr(cfg.rowSize, 200)),
                !.valueAreaVolume =
                    Max2(0, Min2(100, parseIntOr(cfg.valueAreaVolume, 70)))]

\* calculateFRVP up to the call of calculateProfile
FrvpValidate ==
    /\ pc = "validate"
    /\ IF Len(minuteBars) = 0
       THEN pc' = "error" /\ UNCHANGED settings
       ELSE settings' = validateFRVPConfig(config) /\ pc' = "start"
    /\ UNCHANGED <<minuteBars, rows, barIdx, poc, vaPercentage,
                   targetVolume, accumulatedVolume, valueAreaRows, aboveIndex,
                   belowIndex, chosenSide, vah, val>>
    /\ UNCHANGED <<cvdVars, indicatorVars, devVars, appVars>>

NextFRVP == FrvpValidate \/ ProfileRows \/ ProfileDistribute \/ ProfilePOC \/ NextVA

\* row sizes of the Number and Tick layouts; 0 (which becomes 200 rows) and
\* percentages that give many rows are left out
ConfigRowSizes == {-1, 2, 3, 10}
ConfigVolumes == {-5, -1, 0, 1, 70, 100, 101, 150}

\* the bars tried: a flat one, a rising one, and an up bar and a down bar with
\* larger volumes whose ranges overlap
FrvpShapes ==
    DevShapes \cup {[open |-> 10, high |-> 12, low |-> 9, close |-> 11, volume |-> 100],
                    [open |-> 11, high |-> 11, low |-> 8, close |-> 9, volume |-> 200]}

InitFRVP ==
    /\ FrvpBlank
    /\ CvdIdle
    /\ IndicatorsIdle
    /\ DevIdle
    /\ \E n \in 0 .. MaxBars, odd \in FrvpShapes, even \in FrvpShapes :
          minuteBars = [k \in 1 .. n |->
                           LET shape == IF k % 2 = 1 THEN odd ELSE even
                           IN  [time |-> (k - 1) * 60, open |-> shape.open,
                                high |-> shape.high, low |-> shape.low,
                                close |-> shape.close, volume |-> shape.volume]]
    /\ \E layout \in Layouts, vav \in ConfigVolumes :
          \E size \in (IF layout = "Percentage" THEN PercentSizes \cup {0}
                       ELSE ConfigRowSizes) :
             config = [rowsLayout |-> layout, rowSize |-> size, valueAreaVolume |-> vav]
    /\ calls = 1
    /\ firstOutput = <<>>
    /\ FeedIdle
    /\ AlertsIdle
    /\ settings = config
    /\ rows = <<>>
    /\ vaPercentage = 0
    /\ pc = "validate"

SpecFRVP == InitFRVP /\ [][NextFRVP]_vars

-----------------------------------------------------------------------------
(* A caller that calls an engine a second time with the same argument      *)
(* objects (and, for calculateProfile, on the same calculator).  The local *)
(* variables of the first call are gone; what the second call sees of the  *)
(* first is what the first left in its arguments and in this.config.       *)

\* everything the engines return, and whether they threw
engineOutputs ==
    [rows |-> rows, poc |-> poc, vah |-> vah, val |-> val,
     valueAreaRows |-> valueAreaRows, pc |-> pc,
     cvdData |-> cvdData,
     smoothFn |-> smoothFn, smoothed |-> smoothed, rsiData |-> rsiData,
     rsiValues |-> rsiValues, maValues |-> maValues, bbUpper |-> bbUpper,
     bbLower |-> bbLower, bullDivergences |-> bullDivergences,
     bearDivergences |-> bearDivergences, rsiPivotsL |-> rsiPivotsL,
     rsiPivotsH |-> rsiPivotsH, macdLine |-> macdLine,
     signalLine |-> signalLine, histogramData |-> histogramData, indPc |-> indPc]

\* calculator.calculateProfile(minuteBars, config) once more
ProfileAgain ==
    /\ pc \in {"done", "error"}
    /\ calls = 1
    /\ firstOutput' = engineOutputs
    /\ calls' = 2
    /\ rows' = <<>>
    /\ barIdx' = 0
    /\ poc' = NullRow
    /\ vaPercentage' = 0
    /\ targetVolume' = Zero
    /\ accumulatedVolume' = Zero
    /\ valueAreaRows' = <<>>
    /\ aboveIndex' = 0
    /\ belowIndex' = 0
    /\ chosenSide' = "none"
    /\ vah' = NullRow
    /\ val' = NullRow
    /\ pc' = "start"
    /\ UNCHANGED <<minuteBars, settings, config, uiVars>>
    /\ UNCHANGED <<cvdVars, indicatorVars, devVars>>

\* calculateCVD(candles, oneMinCandles, options) once more
CvdAgain ==
    /\ pc = "idle" /\ indPc = "idle"
    /\ Len(candles) > 0 /\ cvdI = Len(candles)
    /\ calls = 1
    /\ firstOutput' = engineOutputs
    /\ calls' = 2
    /\ cvdI' = 0
    /\ cumulativeCVD' = 0
    /\ currentAnchorStart' = -1
    /\ cvdData' = <<>>
    /\ deltas' = <<>>
    /\ UNCHANGED <<candles, oneMinCandles, options, config, uiVars>>
    /\ UNCHANGED <<frvpVars, indicatorVars, devVars>>

\* the indicator function(s) called on data once more
IndicatorAgain ==
    /\ indPc \in {"done", "error"}
    /\ calls = 1
    /\ firstOutput' = engineOutputs
    /\ calls' = 2
    /\ smoothFn' = "none"
    /\ smoothed' = <<>>
    /\ rsiData' = <<>>
    /\ rsiValues' = <<>>
    /\ maValues' = <<>>
    /\ bbUpper' = <<>>
    /\ bbLower' = <<>>
    /\ bullDivergences' = <<>>
    /\ bearDivergences' = <<>>
    /\ rsiPivotsL' = <<>>
    /\ rsiPivotsH' = <<>>
    /\ macdLine' = <<>>
    /\ signalLine' = <<>>
    /\ histogramData' = <<>>
    /\ indPc' = IF "rsiPeriod" \in DOMAIN indSettings THEN "rsi"
                ELSE IF "fastLength" \in DOMAIN indSettings THEN "macd"
                ELSE "smooth"
    /\ UNCHANGED <<data, indSettings, config, uiVars>>
    /\ UNCHANGED <<frvpVars, cvdVars, devVars>>

\* the inputs of the engines' own specifications, with one value-area
\* percentage and one chart timeframe and anchor period
InitEngines ==
    \/ InitProfile /\ settings.valueAreaVolume = 50
    \/ InitCVD /\ options = [anchorPeriod |-> "4H", chartTimeframe |-> 2]
    \/ InitRSI
    \/ InitMACD
    \/ InitSmooth

NextEngines ==
    \/ NextProfile \/ ProfileAgain
    \/ CvdStep \/ CvdAgain
    \/ NextRSI \/ NextMACD \/ NextSmooth \/ IndicatorAgain

SpecEngines == InitEngines /\ [][NextEngines]_vars

-----------------------------------------------------------------------------
(* The real-time CVD feed: startCVDWebSocket, the socket's handlers, the   *)
(* reconnect timer and stopCVDWebSocket.  A socket is known by its number  *)
(* in `sockets'; each socket's close event is delivered once, whoever      *)
(* closed it, and the timeout its handler sets is known by the socket's    *)
(* number.                                                                 *)

MaxSockets == 3
MaxMessages == 2

\* the settings the handlers close over
FeedSettings == [anchorPeriod |-> "1H", chartTimeframe |-> 2]

\* the 1-minute candles the exchange may send: the two minutes of one
\* 2-minute chart candle, and the first minute of the next hour
FeedTimes == {1704094080, 1704094140, 1704096000}
FeedCandles == {[time |-> t, open |-> 2, close |-> c, volume |-> 3] :
                    t \in FeedTimes, c \in {1, 2, 3}}

\* the body of startCVDWebSocket(symbol, cvdInstance, settings)
startCVDWebSocket ==
    IF cvdWebSocket # 0
    THEN UNCHANGED <<cvdWebSocket, sockets>>
    ELSE /\ Len(sockets) < MaxSockets
         /\ sockets' = Append(sockets, "connecting")
         /\ cvdWebSocket' = Len(sockets) + 1

\* the application calls startCVDWebSocket (or enableRealtimeCVD)
FeedStart ==
    /\ startCVDWebSocket
    /\ stopped' = FALSE
    /\ UNCHANGED <<cvdReconnectTimer, cvdRealtimeData, timers, delivered, cvdSeries>>
    /\ UNCHANGED <<frvpVars, cvdVars, indicatorVars, devVars, config, calls, firstOutput,
                   alertVars>>

\* cvdWebSocket.onopen: the subscription is sent
SocketOnOpen(s) ==
    /\ sockets[s] = "connecting"
    /\ sockets' = [sockets EXCEPT ![s] = "open"]
    /\ UNCHANGED <<cvdWebSocket, cvdReconnectTimer, cvdRealtimeData, timers,
                   delivered, cvdSeries, stopped>>
    /\ UNCHANGED <<frvpVars, cvdVars, indicatorVars, devVars, config, calls, firstOutput,
                   alertVars>>

\* handleCandleUpdate(data, cvdInstance, settings), with updateCVDChart
handleCandleUpdate(candle) ==
    LET anchorStart == getAnchorPeriodStart(candle.time, FeedSettings.anchorPeriod)
        reset == \/ cvdRealtimeData.lastAnchorReset = -1
                 \/ anchorStart # cvdRealtimeData.lastAnchorReset
        oneMinBuffer == Append(IF reset THEN <<>> ELSE cvdRealtimeData.oneMinBuffer,
                               candle)
        previousBar == IF Len(oneMinBuffer) > 1
                       THEN oneMinBuffer[Len(oneMinBuffer) - 1]
                       ELSE NoBar
        previousDelta == 0
        delta == calculateDeltaForBar(candle, previousBar, previousDelta)
        currentCVD == (IF reset THEN 0 ELSE cvdRealtimeData.currentCVD) + delta
        timeframeSeconds == FeedSettings.chartTimeframe * 60
        candleStartTime == (candle.time \div timeframeSeconds) * timeframeSeconds
        nextCandleTime == candle.time + 60
        nextCandleStartTime == (nextCandleTime \div timeframeSeconds) * timeframeSeconds
        complete == nextCandleStartTime # candleStartTime
    IN  /\ cvdRealtimeData' =
              [oneMinBuffer |-> IF complete THEN <<>> ELSE oneMinBuffer,
               currentCVD |-> currentCVD,
               lastAnchorReset |-> anchorStart]
        /\ cvdSeries' = IF complete
                        THEN [time |-> candleStartTime, value |-> currentCVD]
                        ELSE cvdSeries

\* cvdWebSocket.onmessage with a candle update ('cn'); an 'ack' is only logged
SocketOnMessage(s, candle) ==
    /\ sockets[s] = "open"
    /\ delivered < MaxMessages
    /\ delivered' = delivered + 1
    /\ handleCandleUpdate(candle)
    /\ UNCHANGED <<cvdWebSocket, cvdReconnectTimer, sockets, timers, stopped>>
    /\ UNCHANGED <<frvpVars, cvdVars, indicatorVars, devVars, config, calls, firstOutput,
                   alertVars>>

\* cvdWebSocket.onclose: the close event of socket s, after the server or
\* the network closed it or after close() was called on it
SocketOnClose(s) ==
    /\ sockets[s] # "closed"
    /\ sockets' = [sockets EXCEPT ![s] = "closed"]
    /\ cvdWebSocket' = 0
    /\ cvdReconnectTimer' = s
    /\ timers' = timers \cup {s}
    /\ UNCHANGED <<cvdRealtimeData, delivered, cvdSeries, stopped>>
    /\ UNCHANGED <<frvpVars, cvdVars, indicatorVars, devVars, config, calls, firstOutput,
                   alertVars>>

\* the setTimeout callback of onclose, 5 seconds later
ReconnectTimer(t) ==
    /\ t \in timers
    /\ timers' = timers \ {t}
    /\ startCVDWebSocket
    /\ UNCHANGED <<cvdReconnectTimer, cvdRealtimeData, delivered, cvdSeries, stopped>>
    /\ UNCHANGED <<frvpVars, cvdVars, indicatorVars, devVars, config, calls, firstOutput,
                   alertVars>>

\* stopCVDWebSocket()
stopCVDWebSocket ==
    /\ timers' = IF cvdReconnectTimer # 0 THEN timers \ {cvdReconnectTimer} ELSE timers
    /\ cvdReconnectTimer' = 0
    /\ sockets' = IF cvdWebSocket # 0
                  THEN [sockets EXCEPT ![cvdWebSocket] = "closing"]
                  ELSE sockets
    /\ cvdWebSocket' = 0
    /\ cvdRealtimeData' = NoRealtimeData
    /\ stopped' = TRUE
    /\ UNCHANGED <<delivered, cvdSeries>>
    /\ UNCHANGED <<frvpVars, cvdVars, indicatorVars, devVars, config, calls, firstOutput,
                   alertVars>>

NextFeed ==
    \/ FeedStart
    \/ stopCVDWebSocket
    \/ \E s \in DOMAIN sockets : SocketOnOpen(s)
    \/ \E s \in DOMAIN sockets : SocketOnClose(s)
    \/ \E s \in DOMAIN sockets, candle \in FeedCandles : SocketOnMessage(s, candle)
    \/ \E t \in timers : ReconnectTimer(t)

InitFeed ==
    /\ FrvpIdle
    /\ CvdIdle
    /\ IndicatorsIdle
    /\ DevIdle
    /\ AppIdle

SpecFeed == InitFeed /\ [][NextFeed]_vars

-----------------------------------------------------------------------------
(* calculateProfile to its return, step 5 included: when a developing flag *)
(* is set it calls calculateDeveloping, whose samples are calculateProfile *)
(* calls one level down.                                                   *)

\* step 5 of calculateProfile when settings.developingPOC || settings.developingVA
ProfileDeveloping ==
    /\ pc = "done"
    /\ devI = 0
    /\ wantsDeveloping(mergeFlags(devFlags.instance, devFlags.passed))
    /\ pc' = "developing"
    /\ UNCHANGED <<minuteBars, settings, rows, barIdx, poc, vaPercentage,
                   targetVolume, accumulatedVolume, valueAreaRows, aboveIndex,
                   belowIndex, chosenSide, vah, val>>
    /\ UNCHANGED <<cvdVars, indicatorVars, devVars, appVars>>

\* a flag is true, false or not named
FlagChoices == [{"developingPOC", "developingVA"} -> {"unset", "false", "true"}]

\* the caller calls calculatePOC and calculateValueArea on any row set
CallValueArea ==
    /\ pc = "idle"
    /\ \E percentage \in VAPercentages, n \in 1 .. MaxRows, high \in {0, 6} :
          LET st == [rowsLayout |-> "Number", rowSize |-> n,
                     valueAreaVolume |-> percentage]
          IN  /\ vaPercentage' = percentage
              /\ settings' = st
              /\ \E vols \in [0 .. (n - 1) -> RowVolumes] :
                    rows' = withVolumes(createPriceLevelRows(Num(0), Num(high), st), vols)
    /\ pc' = "poc"
    /\ UNCHANGED <<minuteBars, barIdx, poc, targetVolume, accumulatedVolume,
                   valueAreaRows, aboveIndex, belowIndex, chosenSide, vah, val>>
    /\ UNCHANGED <<cvdVars, indicatorVars, devVars, appVars>>

\* the caller makes a calculator with any flags and calls calculateProfile
\* with any flags, on up to MaxBars bars of the session shapes
CallProfile ==
    /\ pc = "idle"
    /\ \E instance \in FlagChoices, passed \in FlagChoices :
          devFlags' = [instance |-> instance, passed |-> passed]
    /\ \E n \in 0 .. MaxBars, odd \in DevShapes, even \in DevShapes :
          minuteBars' = [k \in 1 .. n |->
                            LET shape == IF k % 2 = 1 THEN odd ELSE even
                            IN  [time |-> (k - 1) * 60, open |-> shape.open,
                                 high |-> shape.high, low |-> shape.low,
                                 close |-> shape.close, volume |-> shape.volume]]
    /\ \E layout \in Layouts, vav \in {70, 100} :
          settings' = [rowsLayout |-> layout,
                       rowSize |-> IF layout = "Percentage" THEN 50 ELSE 2,
                       valueAreaVolume |-> vav]
    /\ vaPercentage' = 0
    /\ pc' = "start"
    /\ UNCHANGED <<rows, barIdx, poc, targetVolume, accumulatedVolume,
                   valueAreaRows, aboveIndex, belowIndex, chosenSide, vah, val>>
    /\ UNCHANGED <<cvdVars, indicatorVars, appVars, developingData, devI, depth>>

\* no call has been made yet
InitTermination ==
    /\ FrvpIdle
    /\ CvdIdle
    /\ IndicatorsIdle
    /\ DevIdle
    /\ AppIdle

NextTermination ==
    \/ CallValueArea
    \/ CallProfile
    \/ CallerPOC
    \/ NextProfile
    \/ ProfileDeveloping
    \/ NextDeveloping

SpecTermination == InitTermination /\ [][NextTermination]_vars

-----------------------------------------------------------------------------
(* The alerts on horizontal rays: window.drawingStore.horizontalRays,      *)
(* window.alertStore, createAlert, toggleAlertStatus, deleteRay and        *)
(* evaluateAlerts.  An alert is known by its place in alertStore.alerts    *)
(* and a ray by the number its id was made from; toasts, sounds, webhooks  *)
(* and the panels are not part of the state.                               *)

AlertCloses == {0, 1, 2}
RayPrices == {1}
BarIndices == {1, 2}
TriggerLimits == {1, 2, 3, -1}
ComparisonTypes == {"greater_than", "less_than", "crosses_above", "crosses_below"}

\* comparisonOperators[comparisonType].evaluate(current, target, last)
operatorEvaluate(comparisonType, current, target, last) ==
    CASE comparisonType = "greater_than" -> current > target
      [] comparisonType = "less_than" -> current < target
      [] comparisonType = "crosses_above" ->
            last # NoValue /\ last <= target /\ current > target
      [] comparisonType = "crosses_below" ->
            last # NoValue /\ last >= target /\ current < target

requiresHistory(comparisonType) == comparisonType \in {"crosses_above", "crosses_below"}

\* evaluateComparison(comparisonType, currentValue, targetValue, lastValue)
evaluateComparison(comparisonType, currentValue, targetValue, lastValue) ==
    IF comparisonType \notin ComparisonTypes THEN FALSE
    ELSE IF requiresHistory(comparisonType) /\ lastValue = NoValue THEN FALSE
    ELSE operatorEvaluate(comparisonType, currentValue, targetValue, lastValue)

\* lines.find(l => l.id === id): the rays with that id
linesWith(rays, id) == {k \in DOMAIN rays : rays[k].id = id}

\* the close of the condition's data source in candleCloseData
closeOf(cond, candle) ==
    IF cond.dataSource = "price" THEN candle.price ELSE candle.cvd

\* window.alertStore.lastValues[trackingKey] || null
lastValOrNull(lv, key) == IF lv[key] = 0 THEN NoValue ELSE lv[key]

\* the callback of alert.conditions.every for condition i of alert a
conditionMet(a, i, cond, candle, rays, lv) ==
    IF linesWith(rays, cond.horizontalLineId) = {} THEN FALSE
    ELSE IF closeOf(cond, candle) = NoValue THEN FALSE
    ELSE evaluateComparison(cond.comparisonType, closeOf(cond, candle),
                            rays[CHOOSE k \in linesWith(rays, cond.horizontalLineId) : TRUE].price,
                            lastValOrNull(lv, <<a, i>>))

\* what every() made of each condition: it stops at the first false one
RECURSIVE everyFrom(_, _, _, _, _, _)
everyFrom(a, i, conds, candle, rays, lv) ==
    IF i > Len(conds) THEN <<>>
    ELSE IF conditionMet(a, i, conds[i], candle, rays, lv)
         THEN <<"true">> \o everyFrom(a, i + 1, conds, candle, rays, lv)
         ELSE <<"false">> \o [k \in 1 .. (Len(conds) - i) |-> "skipped"]

\* cond.horizontalLineValue = line.value, for the conditions every() reached
\* whose line exists
refreshed(conds, results, rays) ==
    [i \in DOMAIN conds |->
        IF results[i] # "skipped" /\ linesWith(rays, conds[i].horizontalLineId) # {}
        THEN [conds[i] EXCEPT !.horizontalLineValue =
                  rays[CHOOSE k \in linesWith(rays, conds[i].horizontalLineId) : TRUE].price]
        ELSE conds[i]]

\* handleAlertTrigger(alert, data, symbol, timeframe)
handleAlertTriggerEveryTime(alert, candle) ==
    LET count == alert.triggerCount + 1
    IN  [alert EXCEPT !.lastTriggeredBar = candle.barIndex,
                      !.triggerCount = count,
                      !.isActive = IF alert.triggerLimit # -1 /\ count >= alert.triggerLimit
                                   THEN FALSE ELSE @]
handleAlertTrigger(alert, candle) ==
    IF alert.lastTriggeredBar = candle.barIndex THEN alert
    ELSE LET count == alert.triggerCount + 1
         IN  [alert EXCEPT !.lastTriggeredBar = candle.barIndex,
                           !.triggerCount = count,
                           !.isActive = IF alert.triggerLimit # -1 /\ count >= alert.triggerLimit
                                        THEN FALSE ELSE @]

\* new Date(alert.expiration) < new Date(): the expiration is a date in the
\* past (0), or empty, an invalid date, which is before nothing
expired(alert) == alert.expiration # NoValue

\* the body of alerts.forEach for alert a: the alert afterwards, the outcome
\* of its conditions (none when it returned early) and lastValues afterwards
evaluateOne(a, alert, candle, rays, lv) ==
    IF ~alert.isActive \/ ~alert.isValid
    THEN [alert |-> alert, results |-> <<>>, lastValues |-> lv]
    ELSE IF expired(alert)
    THEN [alert |-> [alert EXCEPT !.isActive = FALSE], results |-> <<>>, lastValues |-> lv]
    ELSE IF alert.triggerLimit # -1 /\ alert.triggerCount >= alert.triggerLimit
    THEN [alert |-> [alert EXCEPT !.isActive = FALSE], results |-> <<>>, lastValues |-> lv]
    ELSE LET results == everyFrom(a, 1, alert.conditions, candle, rays, lv)
             seen == [alert EXCEPT !.conditions = refreshed(alert.conditions, results, rays)]
             allConditionsMet == \A i \in DOMAIN results : results[i] = "true"
         IN  [alert |-> IF allConditionsMet THEN handleAlertTrigger(seen, candle) ELSE seen,
              results |-> results,
              lastValues |-> [key \in DOMAIN lv |->
                                 IF key[1] = a /\ key[2] \in DOMAIN alert.conditions
                                 THEN closeOf(alert.conditions[key[2]], candle)
                                 ELSE lv[key]]]

\* condResults holds what every() made of each alert's conditions in the
\* evaluateAlerts call that has just run, and nothing after any other step
noResults(als) == [a \in DOMAIN als |-> <<>>]

\* window.alertStore.alerts.forEach from alert a on
RECURSIVE evaluateFrom(_, _, _, _, _, _)
evaluateFrom(a, als, res, candle, rays, lv) ==
    IF a > Len(als) THEN [alerts |-> als, results |-> res, lastValues |-> lv]
    ELSE CHOOSE out \in
            {evaluateFrom(a + 1, [als EXCEPT ![a] = one.alert],
                          [res EXCEPT ![a] = one.results], candle, rays,
                          one.lastValues) :
             one \in {evaluateOne(a, als[a], candle, rays, lv)}} : TRUE

\* evaluateAlerts(candleCloseData)
EvaluateAlerts(candle) ==
    /\ \A a \in DOMAIN alerts :
          alerts[a].triggerLimit = -1 => alerts[a].triggerCount < MaxTriggerCount
    /\ \E out \in {evaluateFrom(1, alerts, noResults(alerts), candle,
                                horizontalRays, lastValues)} :
          /\ alerts' = out.alerts
          /\ condResults' = out.results
          /\ lastValues' = out.lastValues
    /\ UNCHANGED <<horizontalRays, nextRayId>>
    /\ UNCHANGED <<frvpVars, cvdVars, indicatorVars, devVars, config, calls,
                   firstOutput, feedVars>>

\* a ray is placed: its id is made from the time of the click
PlaceRay(price) ==
    /\ nextRayId \in RayIds
    /\ horizontalRays' = Append(horizontalRays, [id |-> nextRayId, price |-> price])
    /\ nextRayId' = nextRayId + 1
    /\ condResults' = noResults(alerts)
    /\ UNCHANGED <<alerts, lastValues>>
    /\ UNCHANGED <<frvpVars, cvdVars, indicatorVars, devVars, config, calls,
                   firstOutput, feedVars>>

\* the alerts after deleteRay's "Invalidate alerts referencing this line"
invalidatedKeeping(als, id) == als
invalidated(als, id) ==
    [a \in DOMAIN als |->
        IF als[a].isValid
           /\ \E i \in DOMAIN als[a].conditions : als[a].conditions[i].horizontalLineId = id
        THEN [als[a] EXCEPT !.isValid = FALSE]
        ELSE als[a]]

\* deleteRay(id), for the id of any ray ever placed
deleteRay(id) ==
    /\ id < nextRayId
    /\ IF linesWith(horizontalRays, id) = {}
       THEN UNCHANGED <<horizontalRays, alerts>>
       ELSE /\ horizontalRays' = SelectSeq(horizontalRays, LAMBDA r : r.id # id)
            /\ alerts' = invalidated(alerts, id)
    /\ condResults' = noResults(alerts)
    /\ UNCHANGED <<nextRayId, lastValues>>
    /\ UNCHANGED <<frvpVars, cvdVars, indicatorVars, devVars, config, calls,
                   firstOutput, feedVars>>

\* the condition rows of the alert modal, each on a ray that exists: one
\* condition on the price, one crossing of the CVD, or a price condition
\* followed by a crossing of the CVD on the same ray
conditionOn(ray, source, type) ==
    [dataSource |-> source, comparisonType |-> type, horizontalLineId |-> ray.id,
     horizontalLineValue |-> ray.price]
AlertForms(rays) ==
    {<<conditionOn(rays[k], "price", t)>> : k \in DOMAIN rays, t \in ComparisonTypes}
    \cup {<<conditionOn(rays[k], "cvd", "crosses_above")>> : k \in DOMAIN rays}
    \cup {<<conditionOn(rays[k], "price", "greater_than"),
            conditionOn(rays[k], "cvd", "crosses_above")>> : k \in DOMAIN rays}

\* createAlert() without editingId
CreateAlert(conditions, triggerLimit, expiration) ==
    /\ Len(alerts) + 1 \in AlertPlaces
    /\ alerts' = Append(alerts,
          [conditions |-> conditions, triggerLimit |-> triggerLimit,
           triggerCount |-> 0, expiration |-> expiration, isActive |-> TRUE,
           isValid |-> TRUE, lastTriggeredBar |-> -1])
    /\ condResults' = noResults(alerts')
    /\ UNCHANGED <<horizontalRays, nextRayId, lastValues>>
    /\ UNCHANGED <<frvpVars, cvdVars, indicatorVars, devVars, config, calls,
                   firstOutput, feedVars>>

\* createAlert() with editingId: the alert of that id is updated
UpdateAlert(a, conditions, triggerLimit, expiration) ==
    /\ a \in DOMAIN alerts
    /\ alerts' = [alerts EXCEPT ![a] =
          [@ EXCEPT !.conditions = conditions,
                    !.triggerLimit = triggerLimit,
                    !.isActive = IF triggerLimit # -1
                                    /\ alerts[a].triggerCount >= triggerLimit
                                 THEN TRUE ELSE @,
                    !.expiration = expiration]]
    /\ condResults' = noResults(alerts)
    /\ UNCHANGED <<horizontalRays, nextRayId, lastValues>>
    /\ UNCHANGED <<frvpVars, cvdVars, indicatorVars, devVars, config, calls,
                   firstOutput, feedVars>>

\* toggleAlertStatus(id, newStatus)
toggleAlertStatus(a, newStatus) ==
    /\ a \in DOMAIN alerts
    /\ alerts' = [alerts EXCEPT ![a].isActive = newStatus]
    /\ condResults' = noResults(alerts)
    /\ UNCHANGED <<horizontalRays, nextRayId, lastValues>>
    /\ UNCHANGED <<frvpVars, cvdVars, indicatorVars, devVars, config, calls,
                   firstOutput, feedVars>>

\* candleCloseData: a bar, the price's close and, when the CVD pane is
\* there, a CVD close equal to it
CandleCloseData(b, v, hasCvd) ==
    [barIndex |-> b, price |-> v, cvd |-> IF hasCvd THEN v ELSE NoValue]

NextAlerts ==
    \/ \E price \in RayPrices : PlaceRay(price)
    \/ \E id \in RayIds : deleteRay(id)
    \/ \E conditions \in AlertForms(horizontalRays), triggerLimit \in TriggerLimits,
          expiration \in {NoValue, 0} :
             CreateAlert(conditions, triggerLimit, expiration)
    \/ \E a \in DOMAIN alerts, conditions \in AlertForms(horizontalRays),
          triggerLimit \in TriggerLimits, expiration \in {NoValue, 0} :
             UpdateAlert(a, conditions, triggerLimit, expiration)
    \/ \E a \in DOMAIN alerts, newStatus \in BOOLEAN : toggleAlertStatus(a, newStatus)
    \/ \E b \in BarIndices, v \in AlertCloses, hasCvd \in BOOLEAN :
          EvaluateAlerts(CandleCloseData(b, v, hasCvd))

InitAlerts ==
    /\ FrvpIdle
    /\ CvdIdle
    /\ IndicatorsIdle
    /\ DevIdle
    /\ AppIdle

SpecAlerts == InitAlerts /\ [][NextAlerts]_vars

-----------------------------------------------------------------------------
(* Properties of FRVPCalculator.                                           *)

InValueArea(i) == \E k \in DOMAIN valueAreaRows : valueAreaRows[k] = i
InsideValueArea == pc \in {"loop", "sort", "done"}
NumRowsNow == Cardinality(DOMAIN rows)

\* C1, as stated: inside calculateValueArea the accumulated volume is at most
\* the target volume at every point, from its initialisation with the POC
\* row's volume to the return.
C1_AccumulatedAtMostTarget ==
    InsideValueArea => RLe(accumulatedVolume, targetVolume)

\* C1, amended: the accumulated volume is at most the target after every
\* expansion step that added a row; it exceeds the target only while it is
\* still the POC row's own volume and no row has been added.
C1_ExpansionNeverOvershoots ==
    InsideValueArea =>
        \/ RLe(accumulatedVolume, targetVolume)
        \/ /\ accumulatedVolume = poc.totalVolume
           /\ valueAreaRows = <<poc.index>>

\* a row was added, and the next candidate was then refused by step 6
C1_Witness ==
    /\ pc = "sort"
    /\ Len(valueAreaRows) >= 2
    /\ RLt(accumulatedVolume, targetVolume)
    /\ chosenSide # "none"

\* C2: at the return of calculateValueArea the value area holds the POC's
\* index, vah and val are rows of the value area, vah has the highest and val
\* the lowest price level in it, and with zero total volume vah = val = poc.
C2_ValueAreaBounds ==
    pc = "done" =>
        /\ InValueArea(poc.index)
        /\ InValueArea(vah.index) /\ vah = rows[vah.index]
        /\ InValueArea(val.index) /\ val = rows[val.index]
        /\ \A k \in DOMAIN valueAreaRows :
              /\ RLe(rows[valueAreaRows[k]].priceLevel, vah.priceLevel)
              /\ RLe(val.priceLevel, rows[valueAreaRows[k]].priceLevel)
        /\ RLe(val.priceLevel, vah.priceLevel)
        /\ (totalVolumeOf(rows) = Zero => vah = poc /\ val = poc)

\* a value area of three rows or more, with the POC strictly inside
C2_Witness ==
    /\ pc = "done"
    /\ Len(valueAreaRows) >= 3
    /\ RLt(val.priceLevel, poc.priceLevel)
    /\ RLt(poc.priceLevel, vah.priceLevel)

\* C4: every iteration of the loop that chooses a candidate follows the
\* protocol: the only candidate if there is one; else the one with strictly
\* more volume; on equal volume the one nearer the POC; on equal distance the
\* 'above' one.  The cursors start next to the POC and the chosen one moves
\* one step away when its row is added.
C4_TieBreakProtocol ==
    [][ /\ (pc = "va" /\ pc' = "loop") =>
              aboveIndex' = poc.index - 1 /\ belowIndex' = poc.index + 1
        /\ ( /\ pc = "loop"
             /\ RLt(accumulatedVolume, targetVolume)
             /\ (aboveIndex >= 0 \/ belowIndex < NumRowsNow) ) =>
              LET hasAbove == aboveIndex >= 0
                  hasBelow == belowIndex < NumRowsNow
                  aboveVol == rows[aboveIndex].totalVolume
                  belowVol == rows[belowIndex].totalVolume
                  aboveDist == poc.index - aboveIndex
                  belowDist == belowIndex - poc.index
              IN  /\ chosenSide' \in {"above", "below"}
                  /\ (hasAbove /\ ~hasBelow) => chosenSide' = "above"
                  /\ (hasBelow /\ ~hasAbove) => chosenSide' = "below"
                  /\ (hasAbove /\ hasBelow /\ RLt(belowVol, aboveVol)) => chosenSide' = "above"
                  /\ (hasAbove /\ hasBelow /\ RLt(aboveVol, belowVol)) => chosenSide' = "below"
                  /\ (hasAbove /\ hasBelow /\ aboveVol = belowVol /\ aboveDist < belowDist)
                        => chosenSide' = "above"
                  /\ (hasAbove /\ hasBelow /\ aboveVol = belowVol /\ belowDist < aboveDist)
                        => chosenSide' = "below"
                  /\ (hasAbove /\ hasBelow /\ aboveVol = belowVol /\ aboveDist = belowDist)
                        => chosenSide' = "above"
                  /\ (pc' = "loop" /\ chosenSide' = "above") =>
                        /\ aboveIndex' = aboveIndex - 1 /\ belowIndex' = belowIndex
                        /\ valueAreaRows' = Append(valueAreaRows, aboveIndex)
                  /\ (pc' = "loop" /\ chosenSide' = "below") =>
                        /\ belowIndex' = belowIndex + 1 /\ aboveIndex' = aboveIndex
                        /\ valueAreaRows' = Append(valueAreaRows, belowIndex)
      ]_vars

\* a row was just added on the 'below' side because, at equal volume, it was
\* nearer the POC than the 'above' candidate
C4_Witness ==
    /\ pc = "loop"
    /\ chosenSide = "below"
    /\ Len(valueAreaRows) >= 2
    /\ valueAreaRows[Len(valueAreaRows)] = belowIndex - 1
    /\ aboveIndex >= 0
    /\ rows[aboveIndex].totalVolume = rows[belowIndex - 1].totalVolume
    /\ (belowIndex - 1) - poc.index < poc.index - aboveIndex

\* C5: calculatePOC returns a row of maximal total volume, and of the rows
\* with that volume the one with the lowest index.
C5_PocIsFirstMaximum ==
    pc \in {"va", "loop", "sort", "done"} =>
        /\ poc.index \in DOMAIN rows /\ poc = rows[poc.index]
        /\ \A i \in DOMAIN rows : RLe(rows[i].totalVolume, poc.totalVolume)
        /\ \A i \in DOMAIN rows : i < poc.index => RLt(rows[i].totalVolume, poc.totalVolume)

\* the maximum is shared with a later row and the POC is not row 0
C5_Witness ==
    /\ pc = "va"
    /\ poc.index > 0
    /\ \E i \in DOMAIN rows : i > poc.index /\ rows[i].totalVolume = poc.totalVolume

RECURSIVE volumeOfBars(_, _, _)
\* the sum of volume over the first n bars, or over those of them with
\* high > low
volumeOfBars(bars, n, rangedOnly) ==
    IF n = 0 THEN 0
    ELSE (IF rangedOnly /\ ~(bars[n].high > bars[n].low) THEN 0 ELSE bars[n].volume)
         + volumeOfBars(bars, n - 1, rangedOnly)

AfterDistribute ==
    \/ pc = "distribute" /\ barIdx > Len(minuteBars)
    \/ pc \in {"va", "loop", "sort", "done"}

\* C3, as stated: after distributeVolume the total volume of the rows equals
\* the total volume of the bars.
C3_VolumeConserved ==
    AfterDistribute =>
        totalVolumeOf(rows) = Num(volumeOfBars(minuteBars, Len(minuteBars), FALSE))

\* C3, amended: after every bar distributeVolume has processed, the total
\* volume of the rows equals the total volume of the processed bars that have
\* high > low; a bar with high = low adds nothing to any row.
C3_RangedVolumeConserved ==
    /\ pc = "distribute" =>
          totalVolumeOf(rows) = Num(volumeOfBars(minuteBars, barIdx - 1, TRUE))
    /\ AfterDistribute =>
          totalVolumeOf(rows) = Num(volumeOfBars(minuteBars, Len(minuteBars), TRUE))

\* two bars with volume, one of them spread over several rows in fractions
C3_Witness ==
    /\ pc = "done"
    /\ Len(minuteBars) = 2
    /\ \A k \in DOMAIN minuteBars : minuteBars[k].volume > 0 /\ minuteBars[k].high > minuteBars[k].low
    /\ NumRowsNow >= 3
    /\ \E i \in DOMAIN rows : rows[i].totalVolume[2] > 1

\* the row count C6 states, computed on integers
expectedRowCount(range, st) ==
    LET n == CASE st.rowsLayout = "Number" -> st.rowSize
               [] st.rowsLayout = "Tick" -> (range + st.rowSize - 1) \div st.rowSize
               [] st.rowsLayout = "Percentage" ->
                    IF range = 0 THEN 0 ELSE (100 + st.rowSize - 1) \div st.rowSize
    IN  IF n < 1 THEN 1 ELSE n

RowsCoverRange ==
    LET low == profileLowOf(minuteBars)
        high == profileHighOf(minuteBars)
        n == expectedRowCount(high - low, settings)
    IN  /\ DOMAIN rows = 0 .. (n - 1)
        /\ \A i \in DOMAIN rows : rows[i].index = i
        /\ rows[0].priceLow = Num(low)
        /\ \A i \in 0 .. (n - 2) : rows[i].priceHigh = rows[i + 1].priceLow
        /\ rows[n - 1].priceHigh = Num(high)

RowsCreated == pc \in {"distribute", "va", "loop", "sort", "done"}

\* C6, as stated: createPriceLevelRows makes exactly N rows, N being given by
\* the layout and raised to at least 1, indexed 0..N-1, contiguous, starting at
\* low and ending at high.
C6_RowsCoverRange == RowsCreated => RowsCoverRange

\* C6 outside its failing case: the statement holds whenever the layout is
\* not 'Percentage' or the price range is not 0.
C6_ExceptFlatPercentage ==
    ( /\ RowsCreated
      /\ ~( /\ settings.rowsLayout = "Percentage"
            /\ profileHighOf(minuteBars) = profileLowOf(minuteBars) ) )
    => RowsCoverRange

-----------------------------------------------------------------------------
(* Properties of the CVD engine.                                           *)

anchorOf(k) == getAnchorPeriodStart(candles[k].time, options.anchorPeriod)

\* C7: a CVD candle opens at 0 when it is the first candle or its anchor
\* period start differs from the previous candle's, and otherwise at the
\* previous CVD candle's close.
C7_CvdContinuity ==
    \A k \in DOMAIN cvdData :
        IF k = 1 \/ anchorOf(k) # anchorOf(k - 1)
        THEN cvdData[k].open = 0
        ELSE cvdData[k].open = cvdData[k - 1].close

\* three candles: the second continues the first, the third starts a new
\* anchor period, both after a non-zero close
C7_Witness ==
    /\ Len(cvdData) = 3
    /\ anchorOf(2) = anchorOf(1) /\ cvdData[1].close # 0 /\ cvdData[2].open # 0
    /\ anchorOf(3) # anchorOf(2) /\ cvdData[2].close # 0

\* the position in oneMinCandles of the bar with the given time
barAt(t) == CHOOSE j \in DOMAIN oneMinCandles : oneMinCandles[j].time = t

\* C8, as stated: every doji bar that has a preceding bar in the 1-minute
\* series contributes +volume when it closes above that bar's close and
\* -volume when it closes below, wherever it falls in its candle's window.
C8_DojiFollowsPreviousClose ==
    \A m \in DOMAIN deltas :
        LET j == barAt(deltas[m].time)
            bar == oneMinCandles[j]
        IN  (j > 1 /\ bar.close = bar.open) =>
               /\ bar.close > oneMinCandles[j - 1].close => deltas[m].delta = bar.volume
               /\ bar.close < oneMinCandles[j - 1].close => deltas[m].delta = -bar.volume

\* C8 outside its failing case: the statement holds for every bar that is not
\* the first bar of its candle's window.
C8_ExceptFirstOfWindow ==
    \A m \in DOMAIN deltas :
        LET j == barAt(deltas[m].time)
            bar == oneMinCandles[j]
        IN  (m > 1 /\ bar.close = bar.open) =>
               /\ bar.close > oneMinCandles[j - 1].close => deltas[m].delta = bar.volume
               /\ bar.close < oneMinCandles[j - 1].close => deltas[m].delta = -bar.volume

\* the bars calculate1MinuteDeltas was last given, one per entry of deltas
windowBar(m) == oneMinCandles[barAt(deltas[m].time)]
InheritingDoji(m) ==
    /\ windowBar(m).close = windowBar(m).open
    /\ (m = 1 \/ windowBar(m).close = windowBar(m - 1).close)

\* C9, as stated: a doji with no previous bar or with the previous bar's
\* close takes the sign of the most recent earlier non-zero delta of the
\* sequence, and is 0 only when there is none.
C9_InheritsLastNonZeroDelta ==
    \A m \in DOMAIN deltas :
        InheritingDoji(m) =>
            LET earlier == {q \in 1 .. (m - 1) : deltas[q].delta # 0}
            IN  IF earlier = {} THEN deltas[m].delta = 0
                ELSE LET q == CHOOSE x \in earlier : \A y \in earlier : y <= x
                     IN  deltas[m].delta = IF deltas[q].delta > 0
                                           THEN windowBar(m).volume
                                           ELSE -windowBar(m).volume

\* C9, amended: such a doji takes the sign of the delta of the bar right
\* before it in the sequence given to calculate1MinuteDeltas, and is 0 when
\* it is the first bar of that sequence or that delta is 0.
C9_InheritsPreviousDelta ==
    \A m \in DOMAIN deltas :
        InheritingDoji(m) =>
            IF m = 1 THEN deltas[m].delta = 0
            ELSE deltas[m].delta =
                    IF deltas[m - 1].delta > 0 THEN windowBar(m).volume
                    ELSE IF deltas[m - 1].delta < 0 THEN -windowBar(m).volume
                    ELSE 0

\* a bar with a positive delta, then a bar with delta 0, then a doji at the
\* same close with volume: its delta is 0
C9_Witness ==
    /\ Len(deltas) >= 3
    /\ InheritingDoji(3) /\ deltas[1].delta > 0 /\ deltas[2].delta = 0
    /\ windowBar(3).volume > 0 /\ deltas[3].delta = 0

RECURSIVE runningTotal(_, _)
\* the open of the last CVD candle plus the first m deltas of its window
runningTotal(open, m) == IF m = 0 THEN open ELSE runningTotal(open, m - 1) + deltas[m].delta

localTimeOfDay(t) == (t + IstOffset) % 86400

\* the session start C11 states: 13:15 of the local day from 13:15 on, 09:15
\* of the local day before
sessionStart(t) ==
    LET dayStart == ((t + IstOffset) \div 86400) * 86400
    IN  IF localTimeOfDay(t) >= 13 * 3600 + 15 * 60
        THEN dayStart + 13 * 3600 + 15 * 60 - IstOffset
        ELSE dayStart + 9 * 3600 + 15 * 60 - IstOffset

\* C11, as stated: with anchorPeriod '4H' the anchor start of every candle is
\* 09:15 of its local day before 13:15 and 13:15 from 13:15 on; the CVD
\* candle opens at 0 exactly at the first candle and at the first candle of a
\* new session, and continues the previous close otherwise; and from 09:15 on
\* no candle's anchor start is later than the candle's own time.
C11_FourHourSessions ==
    options.anchorPeriod = "4H" =>
        \A k \in DOMAIN cvdData :
            LET t == candles[k].time
            IN  /\ anchorOf(k) = sessionStart(t)
                /\ (localTimeOfDay(t) >= 9 * 3600 + 15 * 60 => anchorOf(k) <= t)
                /\ IF k = 1 \/ sessionStart(t) # sessionStart(candles[k - 1].time)
                   THEN cvdData[k].open = 0
                   ELSE cvdData[k].open = cvdData[k - 1].close

\* C11 outside its failing case: the statement holds when no candle falls in
\* the quarter of an hour from 13:00 to 13:15 local time.
C11_ExceptQuarterHour ==
    ( /\ options.anchorPeriod = "4H"
      /\ \A k \in DOMAIN candles :
            ~( /\ localTimeOfDay(candles[k].time) >= 13 * 3600
               /\ localTimeOfDay(candles[k].time) < 13 * 3600 + 15 * 60 ) )
    => \A k \in DOMAIN cvdData :
            LET t == candles[k].time
            IN  /\ anchorOf(k) = sessionStart(t)
                /\ (localTimeOfDay(t) >= 9 * 3600 + 15 * 60 => anchorOf(k) <= t)
                /\ IF k = 1 \/ sessionStart(t) # sessionStart(candles[k - 1].time)
                   THEN cvdData[k].open = 0
                   ELSE cvdData[k].open = cvdData[k - 1].close

-----------------------------------------------------------------------------
(* Properties of the oscillators and the smoothing functions.              *)

InRsiRange(v) == RLe(Zero, v) /\ RLe(v, Num(100))

\* C12: every value of the series calculateRSI returned and of the rsi series
\* of calculateAdvancedRSI is at least 0 and at most 100, the first emitted
\* point included.
C12_RsiBounds ==
    /\ \A x \in DOMAIN rsiData : InRsiRange(rsiData[x].value)
    /\ \A x \in DOMAIN rsiValues : InRsiRange(rsiValues[x].value)

\* both series have two points or more, the first and a later one strictly
\* between 0 and 100
C12_Witness ==
    /\ indPc = "done"
    /\ Len(rsiData) >= 2 /\ Len(rsiValues) >= 2
    /\ RLt(Zero, rsiData[1].value) /\ RLt(rsiData[1].value, Num(100))
    /\ RLt(Zero, rsiData[2].value) /\ RLt(rsiData[2].value, Num(100))
    /\ RLt(Zero, rsiValues[2].value) /\ RLt(rsiValues[2].value, Num(100))

\* Wilder's average of the first period + k values: the simple average of
\* the first period values, then k steps of avg = (avg * (period - 1) + x) / period
RECURSIVE wilderAverage(_, _, _)
wilderAverage(vals, period, k) ==
    IF k = 0 THEN RDiv(initialSum(vals, period), Num(period))
    ELSE RDiv(RAdd(RMul(wilderAverage(vals, period, k - 1), Num(period - 1)),
                   vals[period + k]), Num(period))

\* what C13 states of a point whose averages are avgGain and avgLoss
ZeroLossValue(value, avgGain, avgLoss) ==
    avgLoss = Zero => value = (IF RLt(Zero, avgGain) THEN Num(100) ELSE Num(50))

\* C13, as stated: in the series of calculateRSI and in the rsi series of
\* calculateAdvancedRSI, a point whose smoothed average loss is 0 has the
\* value 100 when its average gain is > 0 and 50 when that is 0 too.
C13_ZeroLossGives100Or50 ==
    LET period == indSettings.rsiPeriod
        avgGain(x) == wilderAverage(gainsOf(data), period, x - 1)
        avgLoss(x) == wilderAverage(lossesOf(data), period, x - 1)
    IN  /\ \A x \in DOMAIN rsiData : ZeroLossValue(rsiData[x].value, avgGain(x), avgLoss(x))
        /\ \A x \in DOMAIN rsiValues : ZeroLossValue(rsiValues[x].value, avgGain(x), avgLoss(x))

\* C13 for calculateRSI alone, where the statement holds
C13_PlainRsiOnly ==
    LET period == indSettings.rsiPeriod
        avgGain(x) == wilderAverage(gainsOf(data), period, x - 1)
        avgLoss(x) == wilderAverage(lossesOf(data), period, x - 1)
    IN  \A x \in DOMAIN rsiData : ZeroLossValue(rsiData[x].value, avgGain(x), avgLoss(x))

RsiReturned == indPc # "rsi"
RsiValuesMade == indPc \in {"smoothing", "bands", "divergence", "done", "error"}

\* the series has max(0, n - P) points and point k (from 0) carries the time
\* of bar P + k
AlignedToBars(pts, n, P) ==
    /\ Len(pts) = (IF n > P THEN n - P ELSE 0)
    /\ \A x \in DOMAIN pts : pts[x].time = At(data, P + (x - 1)).time

\* C14: for n bars and period P the series of calculateRSI and the rsi series
\* of calculateAdvancedRSI have n - P points when n > P and none otherwise,
\* point k carries the time of bar P + k, and the two series carry the same
\* times.
C14_RsiAlignment ==
    /\ RsiReturned => AlignedToBars(rsiData, Len(data), indSettings.rsiPeriod)
    /\ RsiValuesMade =>
          /\ AlignedToBars(rsiValues, Len(data), indSettings.rsiPeriod)
          /\ timesOf(rsiValues) = timesOf(rsiData)

\* five bars and period 2: three points in each series
C14_Witness ==
    /\ indPc = "done"
    /\ Len(data) = 5 /\ indSettings.rsiPeriod = 2
    /\ Len(rsiData) = 3 /\ Len(rsiValues) = 3
    /\ rsiData[1].time = data[3].time /\ rsiValues[3].time = data[5].time

MacdLineMade == indPc \in {"signal", "histogram", "done"}
SignalMade == indPc \in {"histogram", "done"}
HistogramMade == indPc = "done"

\* the elements of seq from position first on
FromPosition(seq, first) == SubSeq(seq, first, Len(seq))

Ascending(times) == \A x \in 1 .. (Len(times) - 1) : times[x] < times[x + 1]

\* C15: the macd series carries exactly the times of the bars from index
\* max(fastLength, slowLength) - 1 on, the signal series the times of the macd
\* points from index signalLength - 1 on, the histogram the signal's times
\* with the value macd - signal; each series is ascending without duplicates.
C15_MacdInnerJoin ==
    LET first == Max2(indSettings.fastLength, indSettings.slowLength) - 1
    IN  /\ MacdLineMade =>
              /\ timesOf(macdLine) = FromPosition(timesOf(data), first + 1)
              /\ Ascending(timesOf(macdLine))
        /\ SignalMade =>
              /\ timesOf(signalLine) = FromPosition(timesOf(macdLine), indSettings.signalLength)
              /\ Ascending(timesOf(signalLine))
        /\ HistogramMade =>
              /\ timesOf(histogramData) = timesOf(signalLine)
              /\ \A x \in DOMAIN histogramData :
                    \E m \in DOMAIN macdLine :
                       /\ macdLine[m].time = histogramData[x].time
                       /\ histogramData[x].value = RSub(macdLine[m].value, signalLine[x].value)

\* the three series have different lengths, all positive, and a histogram
\* value is not 0
C15_Witness ==
    /\ indPc = "done"
    /\ Len(histogramData) >= 2
    /\ Len(signalLine) < Len(macdLine)
    /\ Len(macdLine) < Len(data)
    /\ \E x \in DOMAIN histogramData : histogramData[x].value # Zero

\* C16, as stated: calculateProfile throws when it is given no bars, and for
\* every non-empty bar list it does not throw and returns at least one row
\* and a poc, a vah and a val that are rows of the profile.
C16_FailsOnlyOnEmptyInput ==
    /\ (Len(minuteBars) = 0 /\ pc # "start") => pc = "error"
    /\ Len(minuteBars) > 0 => pc # "error"
    /\ (Len(minuteBars) > 0 /\ pc = "done") =>
          /\ NumRowsNow >= 1
          /\ poc.index \in DOMAIN rows /\ poc = rows[poc.index]
          /\ vah.index \in DOMAIN rows /\ vah = rows[vah.index]
          /\ val.index \in DOMAIN rows /\ val = rows[val.index]

\* C16 outside its failing case: the statement holds whenever the layout is
\* not 'Percentage' or the price range is not 0.
C16_ExceptFlatPercentage ==
    ~( /\ Len(minuteBars) > 0
       /\ settings.rowsLayout = "Percentage"
       /\ profileHighOf(minuteBars) = profileLowOf(minuteBars) )
    => C16_FailsOnlyOnEmptyInput

SmoothingMade == indPc \in {"bands", "divergence", "done"}

\* C17, as stated, for the two RSI functions: with no more bars than the RSI
\* period nothing is thrown and every returned series is empty, whatever the
\* maType.
C17_InsufficientDataNeverThrows ==
    Len(data) <= indSettings.rsiPeriod =>
        /\ indPc # "error"
        /\ rsiData = <<>> /\ rsiValues = <<>> /\ maValues = <<>>
        /\ bbUpper = <<>> /\ bbLower = <<>>
        /\ bullDivergences = <<>> /\ bearDivergences = <<>>

\* C17 outside its failing case: the statement holds for every maType but
\* 'EMA'.
C17_ExceptInlineEma ==
    indSettings.maType # "EMA" => C17_InsufficientDataNeverThrows

\* C17 for the smoothing functions called on their own and for
\* calculateMACD: fewer observations than the period give an empty series.
C17_SmoothingAlone ==
    (indPc = "done" /\ Len(data) < indSettings.period) => smoothed = <<>>
C17_MacdAlone ==
    /\ (MacdLineMade /\ Len(data) < Max2(indSettings.fastLength, indSettings.slowLength))
          => macdLine = <<>>
    /\ (SignalMade /\ Len(macdLine) < indSettings.signalLength) => signalLine = <<>>
    /\ (HistogramMade /\ signalLine = <<>>) => histogramData = <<>>

\* over the n input points "input" and period P: max(0, n - P + 1) output
\* points, carrying the times of the input indices P - 1 .. n - 1 in order
WarmUpAligned(output, input, P) ==
    /\ Len(output) = (IF Len(input) >= P THEN Len(input) - P + 1 ELSE 0)
    /\ \A x \in DOMAIN output : output[x].time = At(input, P - 1 + (x - 1)).time

\* the first output value is the simple average of the first P input values
SeededWithAverage(output, input, P) ==
    output # <<>> => output[1].value = RDiv(initialSum(valuesOf(input), P), Num(P))

\* C18, as stated, for the smoothing calculateAdvancedRSI applies to the RSI
\* line: for maType SMA, EMA, SMMA, WMA and VWMA with length P the smoothed
\* series has max(0, n - P + 1) points at the RSI points P - 1 .. n - 1, and
\* for EMA and SMMA the first value is the average of the first P RSI values.
C18_WarmUpAlignment ==
    (SmoothingMade /\ indSettings.maType \in {"SMA", "EMA", "SMMA", "WMA", "VWMA"}) =>
        /\ WarmUpAligned(maValues, rsiValues, indSettings.maLength)
        /\ indSettings.maType \in {"EMA", "SMMA"} =>
              SeededWithAverage(maValues, rsiValues, indSettings.maLength)

\* C18 outside its failing case: the statement holds for every maType but
\* 'EMA'.
C18_ExceptInlineEma ==
    indSettings.maType # "EMA" => C18_WarmUpAlignment

\* C18 for the smoothing functions called on their own
C18_SmoothingAlone ==
    indPc = "done" =>
        /\ WarmUpAligned(smoothed, data, indSettings.period)
        /\ smoothFn \in {"calculateEMA", "calculateRMA"} =>
              SeededWithAverage(smoothed, data, indSettings.period)

\* every sample is stamped with the time of the last bar of a prefix of the
\* bars, and the stamps are strictly ascending
SamplesOfAscendingPrefixes ==
    /\ \A x \in DOMAIN developingData :
          \E k \in DOMAIN minuteBars : developingData[x].timestamp = minuteBars[k].time
    /\ \A x \in 1 .. (Len(developingData) - 1) :
          developingData[x].timestamp < developingData[x + 1].timestamp

\* C19, as stated: calculateDeveloping returns at most 50 samples, each
\* stamped with the last bar time of a prefix of the bars, in strictly
\* ascending timestamp order.
C19_AtMostFiftySamples ==
    /\ Len(developingData) <= 50
    /\ SamplesOfAscendingPrefixes

\* C19 without its bound: the samples are stamped with prefix times in
\* strictly ascending order, and there is at most one per bar.
C19_SamplesAscending ==
    /\ Len(developingData) <= Len(minuteBars)
    /\ SamplesOfAscendingPrefixes

rsiAt(i) == At(rsiValues, i).value
barAtTime(t) == data[CHOOSE k \in DOMAIN data : data[k].time = t]

\* the indices with at least 5 points on each side whose value is strictly
\* lower (higher) than each of the 10 surrounding points
PivotLowIndices ==
    {i \in 0 .. (Len(rsiValues) - 1) :
        /\ i - 5 >= 0 /\ i + 5 <= Len(rsiValues) - 1
        /\ \A j \in ((i - 5) .. (i + 5)) \ {i} : RLt(rsiAt(i), rsiAt(j))}
PivotHighIndices ==
    {i \in 0 .. (Len(rsiValues) - 1) :
        /\ i - 5 >= 0 /\ i + 5 <= Len(rsiValues) - 1
        /\ \A j \in ((i - 5) .. (i + 5)) \ {i} : RLt(rsiAt(j), rsiAt(i))}

\* the pivot of the set right before curr, or -1
PrecedingPivot(pivots, curr) ==
    IF \E p \in pivots : p < curr
    THEN CHOOSE p \in pivots : p < curr /\ \A q \in pivots : q < curr => q <= p
    ELSE -1

\* the pivot lows at which C20 has a bullish divergence recorded, and the
\* pivot highs at which it has a bearish one recorded
BullishIndices ==
    {curr \in PivotLowIndices :
        LET prev == PrecedingPivot(PivotLowIndices, curr)
        IN  /\ prev # -1
            /\ curr - prev >= 5 /\ curr - prev <= 60
            /\ barAtTime(At(rsiValues, curr).time).low < barAtTime(At(rsiValues, prev).time).low
            /\ RLt(rsiAt(prev), rsiAt(curr))}
BearishIndices ==
    {curr \in PivotHighIndices :
        LET prev == PrecedingPivot(PivotHighIndices, curr)
        IN  /\ prev # -1
            /\ curr - prev >= 5 /\ curr - prev <= 60
            /\ barAtTime(At(rsiValues, curr).time).high > barAtTime(At(rsiValues, prev).time).high
            /\ RLt(rsiAt(curr), rsiAt(prev))}

\* the sequence holds one entry per index of the set, in ascending order,
\* with the time and the value of that RSI point
ListsExactly(entries, indices) ==
    /\ Len(entries) = Cardinality(indices)
    /\ \A i \in indices :
          \E x \in DOMAIN entries :
             /\ entries[x].time = At(rsiValues, i).time
             /\ entries[x].value = rsiAt(i)
    /\ \A x \in 1 .. (Len(entries) - 1) : entries[x].time < entries[x + 1].time

\* C20: with calculateDivergence on, the pivot lows (highs) found are exactly
\* the points with 5 points on each side that are strictly lower (higher)
\* than each of the 10 surrounding points; a bullish divergence is recorded
\* at exactly the pivot lows whose preceding pivot low is 5 to 60 points
\* earlier, with a lower bar low and a higher RSI value than there; a bearish
\* one at exactly the pivot highs whose preceding pivot high is 5 to 60
\* points earlier, with a higher bar high and a lower RSI value.
C20_DivergenceRule ==
    indPc = "done" =>
        /\ ListsExactly(rsiPivotsL, PivotLowIndices)
        /\ \A x \in DOMAIN rsiPivotsL : rsiPivotsL[x].index \in PivotLowIndices
        /\ ListsExactly(rsiPivotsH, PivotHighIndices)
        /\ \A x \in DOMAIN rsiPivotsH : rsiPivotsH[x].index \in PivotHighIndices
        /\ ListsExactly(bullDivergences, BullishIndices)
        /\ ListsExactly(bearDivergences, BearishIndices)

\* three pivot lows: a bullish divergence at the second, and none at the
\* third although its bar low is lower and its RSI value higher than at the
\* first one
C20_Witness ==
    /\ indPc = "done"
    /\ Len(rsiPivotsL) = 3
    /\ Len(bullDivergences) = 1
    /\ bullDivergences[1].time = rsiPivotsL[2].time
    /\ barAtTime(rsiPivotsL[3].time).low < barAtTime(rsiPivotsL[1].time).low
    /\ RLt(rsiPivotsL[1].value, rsiPivotsL[3].value)

-----------------------------------------------------------------------------
(* Properties of calculateFRVP's validation.                               *)

Validated == pc \notin {"validate", "error"}
clamp(v) == Min2(100, Max2(0, v))

\* C21, as stated: validateFRVPConfig returns valueAreaVolume clamped into
\* 0..100, min(100, max(0, v)), for every integer v, and calculateValueArea
\* is then given that validated value as its percentage.
C21_ClampedAndUsed ==
    /\ Validated => settings.valueAreaVolume = clamp(config.valueAreaVolume)
    /\ (Validated /\ pc \in {"va", "loop", "sort", "done"}) =>
          vaPercentage = settings.valueAreaVolume

\* C21 away from zero: a positive value is clamped and used as validated; 0
\* becomes 70, and a negative value is validated to 0 and then used as 70.
C21_ExceptZero ==
    /\ (Validated /\ config.valueAreaVolume # 0) =>
          settings.valueAreaVolume = clamp(config.valueAreaVolume)
    /\ (Validated /\ config.valueAreaVolume = 0) => settings.valueAreaVolume = 70
    /\ (Validated /\ pc \in {"va", "loop", "sort", "done"}) =>
          vaPercentage = IF settings.valueAreaVolume = 0 THEN 70
                         ELSE settings.valueAreaVolume


ScenarioBars ==
    <<[time |-> 0, open |-> 10, high |-> 12, low |-> 9, close |-> 11, volume |-> 100],
      [time |-> 60, open |-> 11, high |-> 11, low |-> 8, close |-> 9, volume |-> 200]>>

\* calculateProfile has distributed the scenario's bars over 2 rows
ScenarioDistributed ==
    /\ minuteBars = ScenarioBars
    /\ settings.rowsLayout = "Number" /\ settings.rowSize = 2
    /\ pc \in {"va", "loop", "sort", "done"}

ScenarioRows ==
    /\ DOMAIN rows = {0, 1}
    /\ rows[0].priceLow = Num(8) /\ rows[0].priceHigh = Num(10)
    /\ rows[1].priceLow = Num(10) /\ rows[1].priceHigh = Num(12)

StrictlyBetween(x, lo, hi) == RLt(lo, x) /\ RLt(x, hi)

\* C22, as stated: the two bars on 2 rows give rows 8..10 and 10..12; row 0
\* holds the second bar's full 200 as down volume plus a part of the first
\* bar, and row 1 holds only a part of the first bar's 100, as up volume.
C22_ScenarioAsStated ==
    ScenarioDistributed =>
       /\ ScenarioRows
       /\ rows[0].downVolume = Num(200)
       /\ StrictlyBetween(rows[0].upVolume, Zero, Num(100))
       /\ rows[1].downVolume = Zero
       /\ StrictlyBetween(rows[1].upVolume, Zero, Num(100))

\* C22, amended: each bar's volume is split over the rows in proportion to
\* the part of the bar's range inside each row.  The first bar (9..12, up)
\* gives 100/3 to row 0 and 200/3 to row 1 as up volume; the second bar
\* (8..11, down) gives 400/3 to row 0 and 200/3 to row 1 as down volume.
C22_ScenarioProportional ==
    ScenarioDistributed =>
       /\ ScenarioRows
       /\ rows[0].upVolume = Rat(100, 3) /\ rows[0].downVolume = Rat(400, 3)
       /\ rows[1].upVolume = Rat(200, 3) /\ rows[1].downVolume = Rat(200, 3)
       /\ rows[0].totalVolume = Rat(500, 3) /\ rows[1].totalVolume = Rat(400, 3)
       /\ rows[0].delta = Num(-100) /\ rows[1].delta = Zero

C22_Witness == ScenarioDistributed /\ pc = "done"


-----------------------------------------------------------------------------
(* Properties of the engines called twice.                                 *)

\* the argument objects of the engines and the calculator's configuration
engineInputs ==
    <<minuteBars, settings, config, candles, oneMinCandles, options, data, indSettings>>

SecondCallReturned ==
    /\ calls = 2
    /\ \/ pc \in {"done", "error"}
       \/ pc = "idle" /\ indPc = "idle" /\ cvdI = Len(candles)
       \/ indPc \in {"done", "error"}

-----------------------------------------------------------------------------
(* Properties of the real-time CVD feed.                                   *)

\* the sockets that are connecting or open
liveSockets == {s \in DOMAIN sockets : sockets[s] \in {"connecting", "open"}}

\* C24: after stopCVDWebSocket has returned and until the application calls
\* startCVDWebSocket again, no reconnect timer is pending (so none fires)
\* and no step creates a WebSocket.
C24_StopIsFinal ==
    /\ [](stopped => timers = {})
    /\ [][stopped /\ stopped' => Len(sockets') = Len(sockets)]_vars

\* C26: at most one socket is connecting or open, and cvdWebSocket refers
\* to it whenever there is one.
C26_Singleton ==
    /\ Cardinality(liveSockets) <= 1
    /\ \A s \in liveSockets : cvdWebSocket = s

-----------------------------------------------------------------------------
(* Termination of calculateProfile.                                        *)

\* the rows the loop of calculateValueArea has added so far
expansions == (poc.index - 1 - aboveIndex) + (belowIndex - poc.index - 1)

\* an iteration of the while loop that did not stop it
Expanded ==
    /\ Len(valueAreaRows') = Len(valueAreaRows) + 1
    /\ ~InValueArea(valueAreaRows'[Len(valueAreaRows')])
    /\ \/ /\ aboveIndex' = aboveIndex - 1
          /\ belowIndex' = belowIndex
          /\ valueAreaRows'[Len(valueAreaRows')] = aboveIndex
       \/ /\ belowIndex' = belowIndex + 1
          /\ aboveIndex' = aboveIndex
          /\ valueAreaRows'[Len(valueAreaRows')] = belowIndex

\* calculateProfile has returned or thrown
Returned ==
    \/ pc = "error"
    \/ /\ pc = "done"
       /\ devI > 0 \/ ~wantsDeveloping(mergeFlags(devFlags.instance, devFlags.passed))

\* how far the call is from its return: the steps of calculateProfile in
\* their order, and inside a loop the iterations it can still make
phase ==
    CASE pc = "idle" -> 10
      [] pc = "start" -> 9
      [] pc = "distribute" -> 8
      [] pc = "poc" -> 7
      [] pc = "va" -> 6
      [] pc = "loop" -> 5
      [] pc = "sort" -> 4
      [] pc = "done" /\ devI = 0 -> 3
      [] pc = "developing" -> 2
      [] pc = "sampling" -> 1
      [] OTHER -> 0
iterationsLeft ==
    CASE pc = "distribute" -> Len(minuteBars) + 1 - barIdx
      [] pc = "loop" -> Cardinality(DOMAIN rows) - 1 - expansions
      [] pc = "sampling" -> Max2(0, Len(minuteBars) + 1 - devI)
      [] OTHER -> 0
Progresses ==
    \/ phase' < phase
    \/ phase' = phase /\ iterationsLeft' < iterationsLeft

\* C25: calculateProfile terminates.  The while loop of calculateValueArea
\* adds at most N - 1 rows for N rows, every iteration either ending the
\* loop or adding one row not yet in the value area and moving one cursor
\* one row away from the POC; no calculateProfile call is made deeper than
\* from the caller's calculateDeveloping; and every step of a call brings
\* it nearer to its return, by a measure that cannot fall below zero.
C25_Terminates ==
    /\ [](pc \in {"loop", "sort"} =>
             /\ expansions = Len(valueAreaRows) - 1
             /\ expansions <= Cardinality(DOMAIN rows) - 1)
    /\ [][pc = "loop" => pc' = "sort" \/ Expanded]_vars
    /\ [](depth <= 1)
    /\ [](iterationsLeft >= 0)
    /\ [][Progresses]_vars

\* a call with a developing flag has returned its samples, after a value
\* area loop that took in every row
C25_Witness ==
    /\ Returned
    /\ depth = 1
    /\ Len(developingData) = MaxBars
    /\ Cardinality(DOMAIN rows) > 1
    /\ expansions = Cardinality(DOMAIN rows) - 1

-----------------------------------------------------------------------------
(* Contiguity of the value area.                                           *)

valueAreaSet == {valueAreaRows[k] : k \in DOMAIN valueAreaRows}

\* the while loop of calculateValueArea has been entered
CursorsSet ==
    \/ pc \in {"loop", "sort"}
    \/ pc = "done" /\ totalVolumeOf(rows) # Zero

\* profileHigh - profileLow > 0
RangePositive == RLt(rows[0].priceLow, rows[Cardinality(DOMAIN rows) - 1].priceHigh)

\* C30: from the start of the loop of calculateValueArea to its return,
\* valueAreaRows is exactly the interval of row indices between the two
\* cursors, aboveIndex + 1 .. belowIndex - 1, and holds the POC's index;
\* when the price range is positive the returned val is the row at the
\* lowest index of the value area and vah the row at its highest index.
C30_ContiguousAroundPoc ==
    /\ CursorsSet =>
          /\ valueAreaSet = (aboveIndex + 1) .. (belowIndex - 1)
          /\ poc.index \in valueAreaSet
    /\ pc = "done" /\ RangePositive =>
          /\ \A i \in valueAreaSet : val.index <= i /\ i <= vah.index
          /\ val = rows[val.index] /\ val.index \in valueAreaSet
          /\ vah = rows[vah.index] /\ vah.index \in valueAreaSet

\* a value area of two or more rows that reaches neither end of the rows
C30_Witness ==
    /\ pc = "done"
    /\ RangePositive
    /\ Len(valueAreaRows) >= 2
    /\ aboveIndex >= 0
    /\ belowIndex < Cardinality(DOMAIN rows)
    /\ val.index = aboveIndex + 1
    /\ vah.index = belowIndex - 1

-----------------------------------------------------------------------------
(* Properties of the alerts.                                               *)

\* the alerts that are there before and after a step
kept == DOMAIN alerts \cap DOMAIN alerts'

\* alert a fires in the step: handleAlertTrigger went past its bar check
Fires(a) == alerts'[a].triggerCount # alerts[a].triggerCount

\* C27: an alert with a finite triggerLimit L whose limit is not edited has
\* triggerCount <= L: it starts at 0, and a step that leaves the limit alone
\* keeps triggerCount <= L.  An alert fires only from evaluateAlerts' body,
\* while active and valid and with triggerCount < L, which adds one to
\* triggerCount; the firing that reaches L leaves the alert inactive; and a
\* firing is on another bar than the alert's last firing, so a second
\* evaluation of the same barIndex does not fire again.
C27_TriggerLimit ==
    /\ [][\A a \in DOMAIN alerts' \ DOMAIN alerts : alerts'[a].triggerCount = 0]_vars
    /\ [][\A a \in kept :
             (/\ alerts[a].triggerLimit # -1
              /\ alerts'[a].triggerLimit = alerts[a].triggerLimit
              /\ alerts[a].triggerCount <= alerts[a].triggerLimit)
             => alerts'[a].triggerCount <= alerts[a].triggerLimit]_vars
    /\ [][\A a \in kept :
             Fires(a) =>
                /\ alerts'[a].triggerCount = alerts[a].triggerCount + 1
                /\ alerts[a].isActive /\ alerts[a].isValid
                /\ alerts'[a].triggerLimit = alerts[a].triggerLimit
                /\ alerts[a].triggerLimit # -1 =>
                      /\ alerts[a].triggerCount < alerts[a].triggerLimit
                      /\ (alerts'[a].triggerCount = alerts[a].triggerLimit
                             => ~alerts'[a].isActive)
                /\ alerts'[a].lastTriggeredBar # alerts[a].lastTriggeredBar]_vars

\* an alert limited to 3 firings has fired 3 times, the last one on the bar
\* of its first firing, and is inactive
C27_Witness ==
    \E a \in DOMAIN alerts :
       /\ alerts[a].triggerLimit = 3
       /\ alerts[a].triggerCount = 3
       /\ alerts[a].lastTriggeredBar = 1
       /\ ~alerts[a].isActive
       /\ alerts[a].isValid

\* the alerts with a condition on a line that is not among the rays
orphaned ==
    {a \in DOMAIN alerts :
        \E i \in DOMAIN alerts[a].conditions :
           linesWith(horizontalRays, alerts[a].conditions[i].horizontalLineId) = {}}

\* C28: once deleteRay(id) has removed a ray, every alert with a condition
\* on that ray has isValid = false; and an alert with isValid = false stays
\* invalid and does not fire in any step, whatever toggles, edits of the
\* alert, placements of rays and evaluations follow.
C28_DeletedLineDisables ==
    /\ [](\A a \in orphaned : ~alerts[a].isValid)
    /\ [][\A a \in kept :
             ~alerts[a].isValid => ~alerts'[a].isValid /\ ~Fires(a)]_vars

\* an alert that fired on ray 1 before the ray was deleted has since been
\* edited onto ray 2, which exists, and switched on; it is still invalid
C28_Witness ==
    \E a \in DOMAIN alerts :
       /\ ~alerts[a].isValid
       /\ alerts[a].isActive
       /\ alerts[a].triggerCount = 1
       /\ alerts[a].triggerLimit = -1
       /\ alerts[a].expiration = NoValue
       /\ a \notin orphaned
       /\ linesWith(horizontalRays, 1) = {}
       /\ \A i \in DOMAIN alerts[a].conditions :
             /\ alerts[a].conditions[i].horizontalLineId = 2
             /\ alerts[a].conditions[i].comparisonType = "greater_than"
       /\ lastValues[<<a, 1>>] = 2

\* the conditions every() evaluated in the evaluateAlerts call of the step
evaluatedConditions ==
    {key \in DOMAIN lastValues' :
        /\ key[1] \in kept
        /\ key[2] \in DOMAIN condResults'[key[1]]
        /\ condResults'[key[1]][key[2]] # "skipped"}

\* the value of the line a condition is on
lineValue(cond) ==
    horizontalRays[CHOOSE k \in linesWith(horizontalRays, cond.horizontalLineId) : TRUE].price

\* what the crossing of a condition should be: recorded is the value in
\* lastValues before the call, current the close the call was given
crossed(cond, recorded, current) ==
    /\ recorded # NoValue
    /\ current # NoValue
    /\ IF cond.comparisonType = "crosses_above"
       THEN recorded <= lineValue(cond) /\ current > lineValue(cond)
       ELSE recorded >= lineValue(cond) /\ current < lineValue(cond)

\* C29: in an evaluateAlerts call, a crosses_above condition that is
\* evaluated is true iff a value was recorded for it, the recorded value is
\* <= the line value and the current value is > the line value, for every
\* recorded value, 0 included (crosses_below with >= and <); with no value
\* recorded it is not a crossing.
C29_CrossingUsesRecorded ==
    [][\A key \in evaluatedConditions :
          LET cond == alerts'[key[1]].conditions[key[2]]
          IN  requiresHistory(cond.comparisonType) =>
                 (condResults'[key[1]][key[2]] = "true"
                     <=> crossed(cond, lastValues[key], lastValues'[key]))]_vars

\* the same with a recorded 0 left out
C29_CrossingFromNonZero ==
    [][\A key \in evaluatedConditions :
          LET cond == alerts'[key[1]].conditions[key[2]]
          IN  requiresHistory(cond.comparisonType) /\ lastValues[key] # 0 =>
                 (condResults'[key[1]][key[2]] = "true"
                     <=> crossed(cond, lastValues[key], lastValues'[key]))]_vars

=============================================================================
